---- MODULE Spec2Model ----
(***************************************************************************)
(* PPG-HRV analysis pipeline (bmsp-fall25-mixed-signals).                  *)
(*                                                                         *)
(* The specifications share the variables below:                         *)
(*   SpecClean  clean_ibi applied to bounded raw IBI series;               *)
(*   SpecHrv    analyze_hrv applied to bounded conditioned signals;        *)
(*   SpecRun    run_complete_analysis over a bounded cohort;               *)
(*   SpecClassify, SpecStats  the classifier and the group statistics;     *)
(*   SpecMetrics  the time- and frequency-domain metric functions.         *)
(*                                                                         *)
(* Numbers.  Inter-beat intervals are whole milliseconds.  max_change is   *)
(* the rational <<num, den>> (0.2 is <<1, 5>>), so the float test          *)
(* abs(ibi - last) / last > max_change is the integer test                 *)
(* abs(ibi - last) * den > num * last; for integer-valued intervals below  *)
(* 10^4 the two agree, because a quotient that differs from 1/5 differs    *)
(* by more than 10^-5, far above double rounding.                          *)
(***************************************************************************)
EXTENDS Integers, Sequences, FiniteSets, TLC

VARIABLES
    pc,          \* position of the driver of the specification at hand
    \* ---- clean_ibi (hrv_analyzer.py:53) ----
    ibi_ms,      \* argument: raw inter-beat intervals, ms
    min_ibi,     \* argument
    max_ibi,     \* argument
    max_change,  \* argument, <<num, den>>
    ibi_clean,   \* value returned by clean_ibi
    \* ---- analyze_hrv (hrv_analyzer.py:216) ----
    signal,      \* argument: conditioned PPG signal
    hrv,         \* value returned by analyze_hrv
    calls,       \* the stages analyze_hrv invoked, in order
    \* ---- detect_peaks (hrv_analyzer.py:19) ----
    det_peaks,   \* the peak indices returned by detect_peaks
    \* ---- the arrays as objects: which array a stage is given and returns ----
    heap,        \* the arrays allocated so far; an array's identity is its index
    arg_ref,     \* identity of the array passed to clean_ibi
    ret_ref,     \* identity of the array clean_ibi returned, 0 before it returns
    \* ---- the metric functions called on their own (hrv_analyzer.py:90, 124) ----
    td_result,   \* value returned by calculate_time_domain_hrv
    fd_result,   \* value returned by calculate_frequency_domain_hrv
    \* ---- run_complete_analysis (main.py:39) ----
    subjects_data,
    processed_ppg_records,
    proc_subjects_data,
    all_hrv_data,
    condition_data,
    stats_results,
    raised,      \* exception that left run_complete_analysis, or "none"
    \* ---- the group statistics and the classifier (statistics.py) ----
    scipy,       \* what the scipy.stats tests do when called
    test_calls,  \* the calls of scipy.stats tests made, in order
    anova_results,
    subject_classifications

cleanVars == <<ibi_ms, min_ibi, max_ibi, max_change, ibi_clean>>
hrvVars == <<signal, hrv, calls>>
metricVars == <<td_result, fd_result>>
peakVars == <<det_peaks>>
frameVars == <<heap, arg_ref, ret_ref>>
statVars == <<scipy, test_calls, anova_results, subject_classifications>>
runVars == <<subjects_data, processed_ppg_records, proc_subjects_data,
             all_hrv_data, condition_data, stats_results, raised, statVars>>
vars == <<pc, cleanVars, hrvVars, peakVars, frameVars, metricVars, runVars>>

(***************************************************************************)
(* Program constants (src/src/utils/constants.py).                         *)
(***************************************************************************)
FS == 100
SEGMENT_DURATION == 120
TARGET_SAMPLES == FS * SEGMENT_DURATION
MIN_IBI == 400
MAX_IBI == 1500
MAX_IBI_CHANGE == <<1, 5>>

Abs(x) == IF x < 0 THEN -x ELSE x

(***************************************************************************)
(* clean_ibi, hrv_analyzer.py:53-87.                                       *)
(***************************************************************************)
\* mutant of OutOfLimits: the upper limit is not tested
OutOfLimits_lowerOnly(ibi, lo, hi) == ibi < lo

\* line 76: the physiological-limits test
OutOfLimits(ibi, lo, hi) == ibi < lo \/ ibi > hi

\* mutant of ChangeExceeds: the change is taken relative to the candidate
ChangeExceeds_relativeToCandidate(ibi, last, mc) ==
    Abs(ibi - last) * mc[2] > mc[1] * ibi

\* lines 81-82: change = abs(ibi - clean[-1]) / clean[-1]; change > max_change
ChangeExceeds(ibi, last, mc) == Abs(ibi - last) * mc[2] > mc[1] * last

\* mutant of clean_loop: the change is taken against the raw neighbour
RECURSIVE clean_loop_rawNeighbour(_, _, _, _, _, _)
clean_loop_rawNeighbour(raw, i, clean, lo, hi, mc) ==
    IF i > Len(raw) THEN clean
    ELSE LET ibi == raw[i] IN
         IF ibi < lo \/ ibi > hi
         THEN clean_loop_rawNeighbour(raw, i + 1, clean, lo, hi, mc)
         ELSE IF i > 1 /\ Len(clean) > 0
                 /\ Abs(ibi - raw[i - 1]) * mc[2] > mc[1] * raw[i - 1]
         THEN clean_loop_rawNeighbour(raw, i + 1, clean, lo, hi, mc)
         ELSE clean_loop_rawNeighbour(raw, i + 1, Append(clean, ibi), lo, hi, mc)

\* mutant of clean_loop: a rejected interval is replaced by the last
\* retained one instead of being deleted
RECURSIVE clean_loop_fill(_, _, _, _, _, _)
clean_loop_fill(raw, i, clean, lo, hi, mc) ==
    IF i > Len(raw) THEN clean
    ELSE LET ibi == raw[i]
             bad == \/ ibi < lo \/ ibi > hi
                    \/ /\ i > 1 /\ Len(clean) > 0
                       /\ Abs(ibi - clean[Len(clean)]) * mc[2] > mc[1] * clean[Len(clean)]
         IN IF bad /\ Len(clean) > 0
            THEN clean_loop_fill(raw, i + 1, Append(clean, clean[Len(clean)]), lo, hi, mc)
            ELSE IF bad THEN clean_loop_fill(raw, i + 1, clean, lo, hi, mc)
            ELSE clean_loop_fill(raw, i + 1, Append(clean, ibi), lo, hi, mc)

\* mutant of clean_loop: while nothing is retained yet, the change is taken
\* against the preceding raw interval
RECURSIVE clean_loop_firstAgainstRaw(_, _, _, _, _, _)
clean_loop_firstAgainstRaw(raw, i, clean, lo, hi, mc) ==
    IF i > Len(raw) THEN clean
    ELSE LET ibi == raw[i]
             last == IF Len(clean) > 0 THEN clean[Len(clean)] ELSE raw[i - 1]
         IN
         IF ibi < lo \/ ibi > hi
         THEN clean_loop_firstAgainstRaw(raw, i + 1, clean, lo, hi, mc)
         ELSE IF i > 1 /\ Abs(ibi - last) * mc[2] > mc[1] * last
         THEN clean_loop_firstAgainstRaw(raw, i + 1, clean, lo, hi, mc)
         ELSE clean_loop_firstAgainstRaw(raw, i + 1, Append(clean, ibi), lo, hi, mc)

\* lines 74-85: the loop, from iteration i (1-based) with `clean` built so far
RECURSIVE clean_loop(_, _, _, _, _, _)
clean_loop(raw, i, clean, lo, hi, mc) ==
    IF i > Len(raw) THEN clean
    ELSE LET ibi == raw[i] IN
         IF OutOfLimits(ibi, lo, hi)
         THEN clean_loop(raw, i + 1, clean, lo, hi, mc)
         ELSE IF i > 1 /\ Len(clean) > 0
                 /\ ChangeExceeds(ibi, clean[Len(clean)], mc)
         THEN clean_loop(raw, i + 1, clean, lo, hi, mc)
         ELSE clean_loop(raw, i + 1, Append(clean, ibi), lo, hi, mc)

\* mutant of clean_ibi: no early return for short input
clean_ibi_noEarlyReturn(raw, lo, hi, mc) == clean_loop(raw, 1, <<>>, lo, hi, mc)

\* lines 70-87
clean_ibi(raw, lo, hi, mc) ==
    IF Len(raw) < 2 THEN raw
    ELSE clean_loop(raw, 1, <<>>, lo, hi, mc)

(***************************************************************************)
(* Values.  Python's None is the record None.  A float that may be         *)
(* not-a-number is Num(v) or NaN.  Metrics are whole numbers of the unit   *)
(* named at each definition (the floor of the float the code computes).    *)
(***************************************************************************)
None == [none |-> TRUE]
NaN == [nan |-> TRUE]
Num(v) == [nan |-> FALSE, v |-> v]

RECURSIVE SumSeq(_)
SumSeq(s) == IF s = <<>> THEN 0 ELSE s[1] + SumSeq(Tail(s))

\* np.diff
Diff(s) == [k \in 1..(Len(s) - 1) |-> s[k + 1] - s[k]]

SeqMax(s) == CHOOSE m \in {s[k] : k \in 1..Len(s)} : \A k \in 1..Len(s) : s[k] <= m
SeqMin(s) == CHOOSE m \in {s[k] : k \in 1..Len(s)} : \A k \in 1..Len(s) : s[k] >= m

\* floor of the square root, by bisection on lo <= r < hi
RECURSIVE SqrtBetween(_, _, _)
SqrtBetween(n, lo, hi) ==
    IF hi - lo <= 1 THEN lo
    ELSE LET mid == (lo + hi) \div 2 IN
         IF mid * mid <= n THEN SqrtBetween(n, mid, hi)
         ELSE SqrtBetween(n, lo, mid)
ISqrt(n) == SqrtBetween(n, 0, 46341)

\* n * sum of squared deviations from the mean = n * sum(x^2) - sum(x)^2
NSqDev(s) == Len(s) * SumSeq([k \in 1..Len(s) |-> s[k] * s[k]]) - SumSeq(s) * SumSeq(s)

(***************************************************************************)
(* A conditioned signal is described by what the pipeline reads of it:     *)
(*   n        its number of samples;                                       *)
(*   peaks    the sample indices of its local maxima at or above the       *)
(*            height threshold (the candidates of scipy's find_peaks);     *)
(*   amp      the amplitude at each of those indices, in hundredths;       *)
(*   prominence  the prominence of each of them, in hundredths;            *)
(*   spectrum the LF and HF band powers of the resampled, detrended IBI    *)
(*            series (numpy's FFT and trapezoid integral), in ms^2.        *)
(***************************************************************************)

\* MIN_PEAK_DISTANCE = 0.4 s as <<num, den>>; PEAK_PROMINENCE = 0.3 in
\* hundredths, the unit of amp and prominence
MIN_PEAK_DISTANCE == <<2, 5>>
PEAK_PROMINENCE == 30

\* the index, among those of todo, of the candidate of highest priority;
\* of equal priorities the later one comes first
Highest(priority, todo) ==
    CHOOSE j \in todo : \A k \in todo :
        priority[k] < priority[j] \/ (priority[k] = priority[j] /\ k <= j)

\* mutant of select_by_peak_distance: no candidate is dropped
select_by_peak_distance_keepAll(peaks, priority, distance, todo, keep) == keep

\* the distance condition of find_peaks (distance = min_samples,
\* hrv_analyzer.py:38): candidates are visited from the highest downwards,
\* and a candidate that is still kept drops every other candidate closer to
\* it than distance samples.  todo: the candidates not visited yet.
RECURSIVE select_by_peak_distance(_, _, _, _, _)
select_by_peak_distance(peaks, priority, distance, todo, keep) ==
    IF todo = {} THEN keep
    ELSE LET j == Highest(priority, todo)
             near == {k \in DOMAIN peaks : k # j /\ Abs(peaks[j] - peaks[k]) < distance}
         IN select_by_peak_distance(peaks, priority, distance, todo \ {j},
                                    IF j \in keep THEN keep \ near ELSE keep)

\* s restricted to the positions in keep, from position k on
RECURSIVE TakeFrom(_, _, _)
TakeFrom(s, keep, k) ==
    IF k > Len(s) THEN <<>>
    ELSE (IF k \in keep THEN <<s[k]>> ELSE <<>>) \o TakeFrom(s, keep, k + 1)

\* find_peaks(signal, distance=min_samples, height=height_thresh,
\* prominence=PEAK_PROMINENCE), hrv_analyzer.py:36-41: of the local maxima
\* at or above the height threshold, those left by the distance condition
\* whose prominence is at least PEAK_PROMINENCE
find_peaks(sig, distance) ==
    LET keep == select_by_peak_distance(sig.peaks, sig.amp, distance,
                                        DOMAIN sig.peaks, DOMAIN sig.peaks)
    IN TakeFrom(sig.peaks,
                {k \in keep : sig.prominence[k] >= PEAK_PROMINENCE}, 1)

\* min_samples = int(min_distance * fs), hrv_analyzer.py:33
min_samples(fs) == (MIN_PEAK_DISTANCE[1] * fs) \div MIN_PEAK_DISTANCE[2]

\* mutant of detect_peaks: the intervals are left in samples
detect_peaks_inSamples(sig, fs) ==
    LET peaks == find_peaks(sig, min_samples(fs)) IN
    [peaks |-> peaks,
     ibi_ms |-> IF Len(peaks) > 1 THEN Diff(peaks) ELSE <<>>]

\* detect_peaks, hrv_analyzer.py:33-50.  ibi_ms in ms.
detect_peaks(sig, fs) ==
    LET peaks == find_peaks(sig, min_samples(fs)) IN
    [peaks |-> peaks,
     ibi_ms |-> IF Len(peaks) > 1
                THEN [k \in 1..(Len(peaks) - 1) |-> (Diff(peaks)[k] * 1000) \div fs]
                ELSE <<>>]

\* mutant of calculate_time_domain_hrv: nn50 counts the differences of 50 ms
\* as well
calculate_time_domain_hrv_nn50AtLeast(ibi) ==
    IF Len(ibi) < 2 THEN None
    ELSE LET n == Len(ibi)
             diff_ibi == Diff(ibi)
             nn50 == Cardinality({k \in 1..Len(diff_ibi) : Abs(diff_ibi[k]) >= 50})
         IN [none |-> FALSE,
             mean_hr |-> (60000 * 1000 * n) \div SumSeq(ibi),
             mean_ibi |-> SumSeq(ibi) \div n,
             sdnn |-> ISqrt(NSqDev(ibi) \div (n * (n - 1))),
             rmssd |-> ISqrt(SumSeq([k \in 1..Len(diff_ibi) |-> diff_ibi[k] * diff_ibi[k]])
                             \div Len(diff_ibi)),
             nn50 |-> nn50,
             pnn50 |-> (nn50 * 100) \div Len(diff_ibi),
             ibi_range |-> SeqMax(ibi) - SeqMin(ibi),
             cv |-> (ISqrt(NSqDev(ibi) \div (n * n)) * 100) \div (SumSeq(ibi) \div n)]

\* mutant of calculate_time_domain_hrv: a single interval is not returned
\* early; its deviation and successive differences are not-a-number
calculate_time_domain_hrv_noShortReturn(ibi) ==
    IF Len(ibi) < 1 THEN None
    ELSE LET n == Len(ibi)
             diff_ibi == Diff(ibi)
             nn50 == Cardinality({k \in 1..Len(diff_ibi) : Abs(diff_ibi[k]) > 50})
         IN [none |-> FALSE,
             mean_hr |-> (60000 * 1000 * n) \div SumSeq(ibi),
             mean_ibi |-> SumSeq(ibi) \div n,
             sdnn |-> IF n = 1 THEN NaN ELSE ISqrt(NSqDev(ibi) \div (n * (n - 1))),
             rmssd |-> IF n = 1 THEN NaN
                       ELSE ISqrt(SumSeq([k \in 1..Len(diff_ibi) |->
                                            diff_ibi[k] * diff_ibi[k]])
                                  \div Len(diff_ibi)),
             nn50 |-> nn50,
             pnn50 |-> IF n = 1 THEN NaN ELSE (nn50 * 100) \div Len(diff_ibi),
             ibi_range |-> SeqMax(ibi) - SeqMin(ibi),
             cv |-> (ISqrt(NSqDev(ibi) \div (n * n)) * 100) \div (SumSeq(ibi) \div n)]

\* calculate_time_domain_hrv, hrv_analyzer.py:105-121.
\* mean_hr in thousandths of a bpm; mean_ibi, sdnn, rmssd, ibi_range in ms;
\* pnn50 and cv in percent.
calculate_time_domain_hrv(ibi) ==
    IF Len(ibi) < 2 THEN None
    ELSE LET n == Len(ibi)
             diff_ibi == Diff(ibi)
             nn50 == Cardinality({k \in 1..Len(diff_ibi) : Abs(diff_ibi[k]) > 50})
         IN [none |-> FALSE,
             mean_hr |-> (60000 * 1000 * n) \div SumSeq(ibi),
             mean_ibi |-> SumSeq(ibi) \div n,
             sdnn |-> ISqrt(NSqDev(ibi) \div (n * (n - 1))),
             rmssd |-> ISqrt(SumSeq([k \in 1..Len(diff_ibi) |-> diff_ibi[k] * diff_ibi[k]])
                             \div Len(diff_ibi)),
             nn50 |-> nn50,
             pnn50 |-> (nn50 * 100) \div Len(diff_ibi),
             ibi_range |-> SeqMax(ibi) - SeqMin(ibi),
             cv |-> (ISqrt(NSqDev(ibi) \div (n * n)) * 100) \div (SumSeq(ibi) \div n)]

\* band_power, hrv_analyzer.py:144-173: the integral of the power spectrum
\* over the band; never negative.
band_power(sig, band) == sig.spectrum[band]

\* mutant of calculate_frequency_domain_hrv: without the test of hf_power
\* the ratio is not 0 when hf_power is
calculate_frequency_domain_hrv_noZeroTest(ibi, sig) ==
    IF Len(ibi) < 10 THEN None
    ELSE LET lf_power == band_power(sig, "lf")
             hf_power == band_power(sig, "hf")
         IN [none |-> FALSE,
             lf_power |-> lf_power,
             hf_power |-> hf_power,
             lf_hf_ratio |-> IF hf_power > 0 THEN (lf_power * 1000) \div hf_power
                             ELSE lf_power * 1000]

\* calculate_frequency_domain_hrv, hrv_analyzer.py:141-181.
\* lf_hf_ratio in thousandths.
calculate_frequency_domain_hrv(ibi, sig) ==
    IF Len(ibi) < 10 THEN None
    ELSE LET lf_power == band_power(sig, "lf")
             hf_power == band_power(sig, "hf")
         IN [none |-> FALSE,
             lf_power |-> lf_power,
             hf_power |-> hf_power,
             lf_hf_ratio |-> IF hf_power > 0 THEN (lf_power * 1000) \div hf_power ELSE 0]

\* signal[peaks], hrv_analyzer.py:201
SampleAt(sig, idx) == sig.amp[CHOOSE k \in 1..Len(sig.peaks) : sig.peaks[k] = idx]

\* calculate_pulse_amplitude, hrv_analyzer.py:197-213.  Hundredths.
calculate_pulse_amplitude(sig, peaks) ==
    IF Len(peaks) = 0 THEN None
    ELSE LET amplitudes == [k \in 1..Len(peaks) |-> SampleAt(sig, peaks[k])]
             n == Len(amplitudes)
             mean_amplitude == SumSeq(amplitudes) \div n
             std_amplitude == IF n = 1 THEN NaN
                              ELSE Num(ISqrt(NSqDev(amplitudes) \div (n * (n - 1))))
         IN [none |-> FALSE,
             mean_amplitude |-> mean_amplitude,
             std_amplitude |-> std_amplitude,
             cv_amplitude |-> IF mean_amplitude > 0
                              THEN IF std_amplitude = NaN THEN NaN
                                   ELSE Num((std_amplitude.v * 100) \div mean_amplitude)
                              ELSE Num(0),
             amplitudes |-> amplitudes]

\* mutant of PeakGate: 10 peaks are not enough
PeakGate_offByOne(peaks) == Len(peaks) <= 10

\* hrv_analyzer.py:238, the first gate
PeakGate(peaks) == Len(peaks) < 10

\* mutant of CleanGate: 3 clean intervals are enough
CleanGate_belowThree(clean) == Len(clean) < 3

\* hrv_analyzer.py:245, the second gate
CleanGate(clean) == Len(clean) < 5

\* mutant of FreqMetrics: the fallback ratio is 0
FreqMetrics_zeroFallback(freq_result) ==
    IF freq_result = None THEN [lf_hf_ratio |-> Num(0)]
    ELSE [lf_hf_ratio |-> Num(freq_result.lf_hf_ratio)]

\* hrv_analyzer.py:255-260: the frequency-domain metrics or their fallback
FreqMetrics(freq_result) ==
    IF freq_result = None THEN [lf_hf_ratio |-> NaN]
    ELSE [lf_hf_ratio |-> Num(freq_result.lf_hf_ratio)]

\* analyze_hrv, hrv_analyzer.py:235-282.  result is the value returned;
\* calls lists the stages invoked, in order.
analyze_hrv(sig, fs, name) ==
    LET det == detect_peaks(sig, fs)
        peaks == det.peaks
        clean == clean_ibi(det.ibi_ms, MIN_IBI, MAX_IBI, MAX_IBI_CHANGE)
        time_metrics == calculate_time_domain_hrv(clean)
        freq_result == calculate_frequency_domain_hrv(clean, sig)
        freq_metrics == FreqMetrics(freq_result)
        pulse_amp == calculate_pulse_amplitude(sig, peaks)
    IN
    IF PeakGate(peaks)
    THEN [result |-> None, calls |-> <<"detect_peaks">>]
    ELSE IF CleanGate(clean)
    THEN [result |-> None, calls |-> <<"detect_peaks", "clean_ibi">>]
    ELSE IF time_metrics = None
    THEN [result |-> None,
          calls |-> <<"detect_peaks", "clean_ibi", "calculate_time_domain_hrv">>]
    ELSE [result |->
            [none |-> FALSE,
             name |-> name,
             n_beats |-> Len(clean),
             ibi_clean |-> clean,
             peaks |-> peaks,
             mean_hr |-> Num(time_metrics.mean_hr),
             sdnn |-> Num(time_metrics.sdnn),
             rmssd |-> Num(time_metrics.rmssd),
             lf_hf_ratio |-> freq_metrics.lf_hf_ratio,
             pulse_amplitude |-> IF pulse_amp # None
                                 THEN Num(pulse_amp.mean_amplitude) ELSE NaN,
             pulse_amp_data |-> pulse_amp,
             psd_power |-> IF freq_result = None THEN None ELSE sig.spectrum],
          calls |-> <<"detect_peaks", "clean_ibi", "calculate_time_domain_hrv",
                      "calculate_frequency_domain_hrv", "calculate_pulse_amplitude">>]

(***************************************************************************)
(* SpecClean: clean_ibi on every series of at most MaxLen intervals drawn  *)
(* from IbiValues, under the default limits and under a second setting in  *)
(* which 790 and 820 are the limits and 10/800 is exactly max_change.      *)
(***************************************************************************)
MaxLen == 5
IbiValues == {400, 790, 800, 810, 820, 2000}
CleanConfigs ==
    {[lo |-> MIN_IBI, hi |-> MAX_IBI, mc |-> MAX_IBI_CHANGE],
     [lo |-> 790, hi |-> 820, mc |-> <<1, 80>>]}

SeqsUpTo(S, n) == UNION {[1..k -> S] : k \in 0..n}

PeaksIdle == det_peaks = <<>>
FrameIdle == heap = <<>> /\ arg_ref = 0 /\ ret_ref = 0
MetricIdle == td_result = None /\ fd_result = None /\ PeaksIdle /\ FrameIdle
HrvIdle == signal = None /\ hrv = None /\ calls = <<>> /\ MetricIdle
RunIdle ==
    /\ subjects_data = <<>>
    /\ processed_ppg_records = <<>>
    /\ proc_subjects_data = <<>>
    /\ all_hrv_data = <<>>
    /\ condition_data = <<>>
    /\ stats_results = <<>>
    /\ raised = "none"
    /\ scipy = None
    /\ test_calls = <<>>
    /\ anova_results = <<>>
    /\ subject_classifications = <<>>
CleanIdle ==
    /\ ibi_ms = <<>>
    /\ min_ibi = MIN_IBI
    /\ max_ibi = MAX_IBI
    /\ max_change = MAX_IBI_CHANGE
    /\ ibi_clean = <<>>

InitClean ==
    /\ pc = "clean_call"
    /\ ibi_ms \in SeqsUpTo(IbiValues, MaxLen)
    /\ \E cfg \in CleanConfigs :
          min_ibi = cfg.lo /\ max_ibi = cfg.hi /\ max_change = cfg.mc
    /\ ibi_clean = <<>>
    /\ HrvIdle
    /\ RunIdle

\* the call clean_ibi(ibi_ms, min_ibi, max_ibi, max_change)
CleanIbi ==
    /\ pc = "clean_call"
    /\ ibi_clean' = clean_ibi(ibi_ms, min_ibi, max_ibi, max_change)
    /\ pc' = "clean_done"
    /\ UNCHANGED <<det_peaks, frameVars, ibi_ms, min_ibi, max_ibi, max_change, hrvVars, metricVars, runVars>>

NextClean == CleanIbi
SpecClean == InitClean /\ [][NextClean]_vars

(***************************************************************************)
(* SpecHrv: analyze_hrv on signals with at most MaxPeaks detected peaks,   *)
(* whose peak-to-peak gaps (samples at FS = 100 Hz) are drawn from Gaps:   *)
(* 800 ms and 1000 ms beats, so that a beat after a shorter one is a 25%   *)
(* change and a beat after a longer one a 20% change.                      *)
(***************************************************************************)
MaxPeaks == 11
Gaps == {80, 100}
AmpBases == {90, 150}
Spectra == {[lf |-> 30, hf |-> 20], [lf |-> 30, hf |-> 0], [lf |-> 0, hf |-> 20]}

\* peak indices: the first at sample 30, then one per gap
RECURSIVE PeaksFrom(_, _)
PeaksFrom(first, gaps) ==
    IF gaps = <<>> THEN <<first>>
    ELSE <<first>> \o PeaksFrom(first + gaps[1], Tail(gaps))

MkSignal(n, peaks, base, spectrum) ==
    [n |-> n,
     peaks |-> peaks,
     amp |-> [k \in 1..Len(peaks) |-> base + 10 * (k % 2)],
     prominence |-> [k \in 1..Len(peaks) |-> base],
     spectrum |-> spectrum]

PeakSets == {<<>>} \cup {PeaksFrom(30, g) : g \in SeqsUpTo(Gaps, MaxPeaks - 1)}

InitHrv ==
    /\ pc = "hrv_call"
    /\ signal \in {MkSignal(TARGET_SAMPLES, p, b, sp) :
                     p \in PeakSets, b \in AmpBases, sp \in Spectra}
    /\ hrv = None
    /\ calls = <<>>
    /\ MetricIdle
    /\ CleanIdle
    /\ RunIdle

\* the call analyze_hrv(signal)
AnalyzeHrv ==
    /\ pc = "hrv_call"
    /\ LET r == analyze_hrv(signal, FS, "Signal") IN
          hrv' = r.result /\ calls' = r.calls
    /\ pc' = "hrv_done"
    /\ UNCHANGED <<det_peaks, frameVars, signal, cleanVars, metricVars, runVars>>

NextHrv == AnalyzeHrv
SpecHrv == InitHrv /\ [][NextHrv]_vars

(***************************************************************************)
(* Claims about clean_ibi (SpecClean).                                     *)
(***************************************************************************)
CleanDone == pc = "clean_done"

WithinLimits(x) == min_ibi <= x /\ x <= max_ibi

\* C4 as stated: for every input series of any length, including 0 and 1,
\* every element of the output of clean_ibi lies in [min_ibi, max_ibi].
\* (Refuted by a single interval outside the limits, returned unchanged.)
C4_AllWithinLimits ==
    CleanDone => \A k \in 1..Len(ibi_clean) : WithinLimits(ibi_clean[k])

\* C4 amended: for every input series of 2 or more intervals, every element
\* of the output of clean_ibi lies in [min_ibi, max_ibi].
C4_WithinLimitsFromTwo ==
    (CleanDone /\ Len(ibi_ms) >= 2)
        => \A k \in 1..Len(ibi_clean) : WithinLimits(ibi_clean[k])

\* an input of 2 or more intervals, one below and one above the limits,
\* of which something is retained
C4_Witness ==
    /\ CleanDone
    /\ Len(ibi_ms) >= 2
    /\ \E k \in 1..Len(ibi_ms) : ibi_ms[k] > max_ibi
    /\ \E k \in 1..Len(ibi_ms) : ibi_ms[k] < min_ibi
    /\ ibi_clean # <<>>

\* The rule of the pass, stated per input position: position i is retained
\* when its interval is within the limits and either nothing before it was
\* retained or its change against the nearest retained position before it
\* is at most max_change.
RECURSIVE Retained(_, _)
Retained(raw, i) ==
    /\ WithinLimits(raw[i])
    /\ LET before == {j \in 1..(i - 1) : Retained(raw, j)} IN
       \/ before = {}
       \/ LET j == CHOOSE m \in before : \A o \in before : o <= m IN
          Abs(raw[i] - raw[j]) * max_change[2] <= max_change[1] * raw[j]

\* the intervals of raw at the positions of keep, in order
RECURSIVE Pick(_, _, _)
Pick(raw, keep, i) ==
    IF i > Len(raw) THEN <<>>
    ELSE (IF i \in keep THEN <<raw[i]>> ELSE <<>>) \o Pick(raw, keep, i + 1)

ScenarioIn == <<800, 820, 790, 2000, 810>>
ScenarioOut == <<800, 820, 790, 810>>
DefaultConfig ==
    min_ibi = MIN_IBI /\ max_ibi = MAX_IBI /\ max_change = MAX_IBI_CHANGE

\* C5: the pass of clean_ibi drops an interval exactly when it lies outside
\* [min_ibi, max_ibi] or its relative change against the most recently
\* retained interval exceeds max_change (a rejected interval is never the
\* baseline); [800, 820, 790, 2000, 810] under 400/1500/0.20 yields
\* [800, 820, 790, 810].
C5_SinglePassRule ==
    (CleanDone /\ Len(ibi_ms) >= 2)
        => /\ ibi_clean =
                Pick(ibi_ms, {i \in 1..Len(ibi_ms) : Retained(ibi_ms, i)}, 1)
           /\ (ibi_ms = ScenarioIn /\ DefaultConfig) => ibi_clean = ScenarioOut

\* the scenario of the claim: 2000 rejected, 810 retained after it
C5_Witness ==
    CleanDone /\ ibi_ms = ScenarioIn /\ DefaultConfig /\ ibi_clean = ScenarioOut

\* C6: every pair of consecutive elements (p, x) of the output of clean_ibi
\* satisfies |x - p| / p <= max_change.
C6_ConsecutiveChangeBounded ==
    CleanDone =>
        \A k \in 1..(Len(ibi_clean) - 1) :
            Abs(ibi_clean[k + 1] - ibi_clean[k]) * max_change[2]
                <= max_change[1] * ibi_clean[k]

\* an output of 2 or more intervals from an input in which some interval
\* within the limits was rejected for its change
C6_Witness ==
    /\ CleanDone
    /\ Len(ibi_clean) >= 2
    /\ \E i \in 1..Len(ibi_ms) : WithinLimits(ibi_ms[i]) /\ ~Retained(ibi_ms, i)

\* a is b with zero or more elements deleted
RECURSIVE IsSubsequence(_, _)
IsSubsequence(a, b) ==
    IF a = <<>> THEN TRUE
    ELSE IF b = <<>> THEN FALSE
    ELSE IF a[1] = b[1] THEN IsSubsequence(Tail(a), Tail(b))
    ELSE IsSubsequence(a, Tail(b))

\* C7: the output of clean_ibi is a subsequence of its input (elements are
\* deleted, never reordered, duplicated or altered) and never longer.
C7_Subsequence ==
    CleanDone => IsSubsequence(ibi_clean, ibi_ms) /\ Len(ibi_clean) <= Len(ibi_ms)

\* an output that skips an interval in the middle of the input
C7_Witness ==
    /\ CleanDone
    /\ Len(ibi_clean) >= 2
    /\ \E i \in 2..(Len(ibi_ms) - 1) :
          /\ ~Retained(ibi_ms, i)
          /\ \E j \in 1..(i - 1) : Retained(ibi_ms, j)
          /\ \E j \in (i + 1)..Len(ibi_ms) : Retained(ibi_ms, j)

\* C8: an input of fewer than 2 intervals is returned unchanged, whatever
\* the value of the single interval.
C8_ShortInputUnchanged ==
    (CleanDone /\ Len(ibi_ms) < 2) => ibi_clean = ibi_ms

\* a single interval outside the limits, returned as it is
C8_Witness ==
    /\ CleanDone
    /\ Len(ibi_ms) = 1
    /\ ~WithinLimits(ibi_ms[1])
    /\ ibi_clean = ibi_ms

(***************************************************************************)
(* run_complete_analysis, main.py:39-152, over a cohort.                   *)
(*                                                                         *)
(* A record is [Name, Signal].  Name is the identity the loader gave the   *)
(* record: <<s, c>> is the record filed as subject s, condition c          *)
(* (loader.py:245-248).  A dict is a function on its keys; the empty dict  *)
(* is <<>>.                                                                *)
(***************************************************************************)
CONDITIONS == <<"baseline", "favorite_song", "least_favorite_song">>
METRICS_5 == <<"mean_hr", "sdnn", "rmssd", "lf_hf_ratio", "pulse_amplitude">>
CondSet == {CONDITIONS[k] : k \in 1..Len(CONDITIONS)}
CondIdx(c) == CHOOSE k \in 1..Len(CONDITIONS) : CONDITIONS[k] = c

\* extract_segment, processor.py:84-98: None when the signal is too short,
\* else target_samples samples of it
extract_segment(sig) ==
    IF sig.n < TARGET_SAMPLES THEN None ELSE [sig EXCEPT !.n = TARGET_SAMPLES]

\* process_ppg_for_hrv, processor.py:119-133: the conditioned segment or None
process_ppg_for_hrv(sig) == extract_segment(sig)

\* process_all_signals, processor.py:148-171: records whose signal cannot be
\* segmented are left out of the list
RECURSIVE process_all_signals(_)
process_all_signals(records) ==
    IF records = <<>> THEN <<>>
    ELSE LET record == records[1]
             processed_signal == process_ppg_for_hrv(record.Signal)
         IN (IF processed_signal # None
             THEN <<[Name |-> record.Name, Signal |-> processed_signal]>>
             ELSE <<>>) \o process_all_signals(Tail(records))

\* main.py:62-65: all_records, subject by subject, condition by condition
AllRecords(data) ==
    [k \in 1..(3 * Len(data)) |-> data[((k - 1) \div 3) + 1][CONDITIONS[((k - 1) % 3) + 1]]]

\* main.py:70-77: the value of idx when (subj_id, cond) is reached, plus one
Slot(subj_id, cond) == 3 * (subj_id - 1) + CondIdx(cond)

\* main.py:70-77: processed records handed out by position
Reorganized(data, processed) ==
    [subj_id \in DOMAIN data |->
        [cond \in {c \in CondSet : Slot(subj_id, c) <= Len(processed)} |->
            processed[Slot(subj_id, cond)]]]

\* analyze_all_subjects, hrv_analyzer.py:298-318, when every key is present
analyze_all_subjects(data, fs) ==
    [subj_id \in DOMAIN data |->
        [cond \in CondSet |->
            analyze_hrv(data[subj_id][cond].Signal, fs, <<subj_id, cond>>).result]]

\* hrv_analyzer.py:307: subj_data[cond] raises KeyError for an absent key
MissingKey(data) == \E subj_id \in DOMAIN data : DOMAIN data[subj_id] # CondSet

\* plot_group_statistics_5metrics, visualizer.py:139-147: the values of one
\* metric under one condition, appended subject by subject from subj_id on
RECURSIVE CollectMetric(_, _, _, _)
CollectMetric(all, cond, metric, subj_id) ==
    IF subj_id > Len(all) THEN <<>>
    ELSE (IF all[subj_id][cond] # None
          THEN <<all[subj_id][cond][metric]>>
          ELSE <<>>) \o CollectMetric(all, cond, metric, subj_id + 1)

\* visualizer.py:131-147
plot_group_statistics_5metrics(all) ==
    [cond \in CondSet |->
        [metric \in {METRICS_5[k] : k \in 1..Len(METRICS_5)} |->
            CollectMetric(all, cond, metric, 1)]]

Min3(a, b, c) == IF a <= b /\ a <= c THEN a ELSE IF b <= c THEN b ELSE c

\* statistics.py:47: the number of samples taken as matched
MatchedCount(cdata, metric) ==
    Min3(Len(cdata["baseline"][metric]),
         Len(cdata["favorite_song"][metric]),
         Len(cdata["least_favorite_song"][metric]))

\* statistics.py:52-54: the three vectors of a metric, cut to n values
Truncated(cdata, metric) ==
    LET n == MatchedCount(cdata, metric) IN
    [baseline |-> SubSeq(cdata["baseline"][metric], 1, n),
     favorite |-> SubSeq(cdata["favorite_song"][metric], 1, n),
     least_fav |-> SubSeq(cdata["least_favorite_song"][metric], 1, n)]

\* A call of a scipy.stats test is <<metric, test, pair>>, pair being the
\* pair_name of a Wilcoxon test and "-" otherwise.  sp tells what the tests
\* do: the calls in sp.fails raise, every other call returns the p-value
\* sp.p.  The record of a call made, with its arguments and its outcome:
TestCall(sp, metric, test, pair, args) ==
    [metric |-> metric, test |-> test, pair |-> pair, args |-> args,
     outcome |-> IF <<metric, test, pair>> \in sp.fails THEN "raised" ELSE "returned"]

\* statistics.py:69-84: the pairs of the Wilcoxon tests, in order
WilcoxonPairs(v) ==
    <<[pair |-> "Baseline vs Favorite", args |-> <<v.baseline, v.favorite>>],
      [pair |-> "Baseline vs Least Fav", args |-> <<v.baseline, v.least_fav>>],
      [pair |-> "Favorite vs Least Fav", args |-> <<v.favorite, v.least_fav>>]>>

\* statistics.py:61-84: the tests called for one metric that is not skipped:
\* the Friedman test, then the three Wilcoxon tests, each in its own try
MetricTestCalls(cdata, sp, metric) ==
    LET v == Truncated(cdata, metric)
        pairs == WilcoxonPairs(v)
    IN <<TestCall(sp, metric, "friedmanchisquare", "-",
                  <<v.baseline, v.favorite, v.least_fav>>)>>
       \o [k \in 1..Len(pairs) |->
             TestCall(sp, metric, "wilcoxon", pairs[k].pair, pairs[k].args)]

\* the test calls of run_statistical_tests for the metrics from METRICS_5[k] on
RECURSIVE StatTestCalls(_, _, _)
StatTestCalls(cdata, sp, k) ==
    IF k > Len(METRICS_5) THEN <<>>
    ELSE (IF MatchedCount(cdata, METRICS_5[k]) < 3 THEN <<>>
          ELSE MetricTestCalls(cdata, sp, METRICS_5[k]))
         \o StatTestCalls(cdata, sp, k + 1)

\* statistics.py:62-68: p_friedman, None when the test raised
friedman_p(sp, metric) ==
    IF <<metric, "friedmanchisquare", "-">> \in sp.fails THEN None ELSE sp.p

\* run_statistical_tests, statistics.py:37-93: results holds the entry of
\* every metric that is not skipped, calls the tests called, in order
run_statistical_tests(cdata, sp) ==
    [results |->
        [metric \in {m \in {METRICS_5[k] : k \in 1..Len(METRICS_5)} :
                        MatchedCount(cdata, m) >= 3} |->
            LET v == Truncated(cdata, metric) IN
            [baseline |-> v.baseline,
             favorite |-> v.favorite,
             least_fav |-> v.least_fav,
             friedman_p |-> friedman_p(sp, metric)]],
     calls |-> StatTestCalls(cdata, sp, 1)]

(***************************************************************************)
(* SpecRun: cohorts of 1..MaxSubjects subjects.  Each raw signal is a      *)
(* regular recording (11 beats of 800 ms; enough for every metric) except  *)
(* for at most MaxFaults of them, each either too short to segment or      *)
(* with only 9 detectable peaks.  Amplitudes differ from one record to     *)
(* the next, so a pulse_amplitude value tells which record it comes from.  *)
(***************************************************************************)
MaxSubjects == 4
MaxFaults == 2

RECURSIVE ConstSeq(_, _)
ConstSeq(v, n) == IF n = 0 THEN <<>> ELSE <<v>> \o ConstSeq(v, n - 1)

RawSignal(subj_id, cond, kind) ==
    MkSignal(IF kind = "short" THEN TARGET_SAMPLES \div 2 ELSE TARGET_SAMPLES + 3000,
             PeaksFrom(30, ConstSeq(80, IF kind = "few_peaks" THEN 8 ELSE 10)),
             100 + 20 * subj_id + 5 * CondIdx(cond),
             [lf |-> 30, hf |-> 20])

FaultKinds == {"short", "few_peaks"}

\* what the scipy.stats tests do in SpecRun: every test returns, or every
\* Friedman test raises
RunOracles ==
    {[fails |-> {}, p |-> Num(<<1, 100>>)],
     [fails |-> {<<METRICS_5[k], "friedmanchisquare", "-">> : k \in 1..Len(METRICS_5)},
      p |-> Num(<<1, 100>>)]}

\* the cohort of n subjects whose records in the domain of faults are of the
\* kind faults gives, and regular otherwise
Cohort(n, faults) ==
    [subj_id \in 1..n |-> [cond \in CondSet |->
        [Name |-> <<subj_id, cond>>,
         Signal |-> RawSignal(subj_id, cond,
                              IF <<subj_id, cond>> \in DOMAIN faults
                              THEN faults[<<subj_id, cond>>] ELSE "regular")]]]

\* the sets of at most k elements of S
RECURSIVE SubsetsUpTo(_, _)
SubsetsUpTo(S, k) ==
    IF k = 0 THEN {{}}
    ELSE LET smaller == SubsetsUpTo(S, k - 1) IN
         smaller \cup {G \cup {x} : G \in smaller, x \in S}

InitRun ==
    /\ pc = "process"
    /\ \E n \in 1..MaxSubjects :
          \E F \in SubsetsUpTo((1..n) \X CondSet, MaxFaults) :
              \E faults \in [F -> FaultKinds] :
                  subjects_data = Cohort(n, faults)
    /\ processed_ppg_records = <<>>
    /\ proc_subjects_data = <<>>
    /\ all_hrv_data = <<>>
    /\ condition_data = <<>>
    /\ stats_results = <<>>
    /\ raised = "none"
    /\ scipy \in RunOracles
    /\ test_calls = <<>>
    /\ anova_results = <<>>
    /\ subject_classifications = <<>>
    /\ CleanIdle
    /\ HrvIdle

\* main.py:59-67
ProcessAllSignals ==
    /\ pc = "process"
    /\ processed_ppg_records' = process_all_signals(AllRecords(subjects_data))
    /\ pc' = "reorganize"
    /\ UNCHANGED <<det_peaks, frameVars, subjects_data, proc_subjects_data, all_hrv_data, condition_data,
                   stats_results, raised, statVars, cleanVars, hrvVars, metricVars>>

\* main.py:69-77
Reorganize ==
    /\ pc = "reorganize"
    /\ proc_subjects_data' = Reorganized(subjects_data, processed_ppg_records)
    /\ pc' = "hrv"
    /\ UNCHANGED <<det_peaks, frameVars, subjects_data, processed_ppg_records, all_hrv_data, condition_data,
                   stats_results, raised, statVars, cleanVars, hrvVars, metricVars>>

\* mutant of AnalyzeAllSubjects: the group-level steps start without the
\* analysis having run
AnalyzeAllSubjects_notAwaited ==
    /\ pc = "hrv"
    /\ ~MissingKey(proc_subjects_data)
    /\ pc' = "group"
    /\ UNCHANGED <<det_peaks, frameVars, subjects_data, processed_ppg_records, proc_subjects_data,
                   all_hrv_data, condition_data, stats_results, raised, statVars,
                   cleanVars, hrvVars, metricVars>>

\* main.py:80, analyze_all_subjects returns
AnalyzeAllSubjects ==
    /\ pc = "hrv"
    /\ ~MissingKey(proc_subjects_data)
    /\ all_hrv_data' = analyze_all_subjects(proc_subjects_data, FS)
    /\ pc' = "group"
    /\ UNCHANGED <<det_peaks, frameVars, subjects_data, processed_ppg_records, proc_subjects_data,
                   condition_data, stats_results, raised, statVars, cleanVars, hrvVars, metricVars>>

\* main.py:80, analyze_all_subjects raises: nothing catches the KeyError of
\* hrv_analyzer.py:307, so it leaves run_complete_analysis
AnalyzeAllSubjectsRaises ==
    /\ pc = "hrv"
    /\ MissingKey(proc_subjects_data)
    /\ raised' = "KeyError"
    /\ pc' = "crashed"
    /\ UNCHANGED <<det_peaks, frameVars, subjects_data, processed_ppg_records, proc_subjects_data,
                   all_hrv_data, condition_data, stats_results, statVars, cleanVars, hrvVars, metricVars>>

\* main.py:99
PlotGroupStatistics ==
    /\ pc = "group"
    /\ condition_data' = plot_group_statistics_5metrics(all_hrv_data)
    /\ pc' = "stats"
    /\ UNCHANGED <<det_peaks, frameVars, subjects_data, processed_ppg_records, proc_subjects_data,
                   all_hrv_data, stats_results, raised, statVars, cleanVars, hrvVars, metricVars>>

\* main.py:102
RunStatisticalTests ==
    /\ pc = "stats"
    /\ LET r == run_statistical_tests(condition_data, scipy) IN
          stats_results' = r.results /\ test_calls' = r.calls
    /\ pc' = "stats_done"
    /\ UNCHANGED <<det_peaks, frameVars, subjects_data, processed_ppg_records, proc_subjects_data,
                   all_hrv_data, condition_data, raised, scipy, anova_results,
                   subject_classifications, cleanVars, hrvVars, metricVars>>

NextRun ==
    \/ ProcessAllSignals
    \/ Reorganize
    \/ AnalyzeAllSubjects
    \/ AnalyzeAllSubjectsRaises
    \/ PlotGroupStatistics
    \/ RunStatisticalTests
SpecRun == InitRun /\ [][NextRun]_vars

(***************************************************************************)
(* Claims about analyze_hrv (SpecHrv).                                     *)
(***************************************************************************)
HrvDone == pc = "hrv_done"

\* the clean IBI series of the signal at hand: the gaps between its
\* detected peaks, in ms, cleaned under the default limits
SignalClean ==
    clean_ibi(detect_peaks(signal, FS).ibi_ms, MIN_IBI, MAX_IBI, MAX_IBI_CHANGE)

\* C9: analyze_hrv returns null exactly when fewer than 10 peaks are
\* detected or fewer than 5 clean intervals remain, and a result otherwise;
\* when the peak gate fails, nothing after peak detection is invoked.
C9_NullExactlyAtGates ==
    HrvDone =>
        /\ hrv = None <=> (Len(signal.peaks) < 10 \/ Len(SignalClean) < 5)
        /\ Len(signal.peaks) < 10 => calls = <<"detect_peaks">>

\* 10 or more peaks, fewer than 5 clean intervals: null from the second gate
C9_Witness ==
    /\ HrvDone
    /\ Len(signal.peaks) >= 10
    /\ Len(SignalClean) < 5
    /\ hrv = None
    /\ calls = <<"detect_peaks", "clean_ibi">>

\* C10: with 10 or more peaks and 5 to 9 clean intervals analyze_hrv
\* returns a result whose lf_hf_ratio is not-a-number and whose mean_hr,
\* sdnn, rmssd and pulse_amplitude are the computed values; with 10 or more
\* clean intervals lf_hf_ratio is the value of the frequency-domain
\* analysis.
C10_FrequencyFallback ==
    (HrvDone /\ Len(signal.peaks) >= 10) =>
        LET clean == SignalClean
            n == Len(clean)
            td == calculate_time_domain_hrv(clean)
        IN /\ (5 <= n /\ n <= 9) =>
                /\ hrv # None
                /\ hrv.lf_hf_ratio = NaN
                /\ hrv.mean_hr = Num((60000 * 1000 * n) \div SumSeq(clean))
                /\ hrv.sdnn = Num(td.sdnn)
                /\ hrv.rmssd = Num(td.rmssd)
                /\ hrv.pulse_amplitude = Num(SumSeq(signal.amp) \div Len(signal.amp))
           /\ n >= 10 =>
                /\ hrv # None
                /\ hrv.lf_hf_ratio =
                      Num(calculate_frequency_domain_hrv(clean, signal).lf_hf_ratio)

\* a result with 5 to 9 beats: lf_hf_ratio is NaN, the other metrics are not
C10_Witness ==
    /\ HrvDone
    /\ hrv # None
    /\ 5 <= hrv.n_beats /\ hrv.n_beats <= 9
    /\ hrv.lf_hf_ratio = NaN
    /\ hrv.mean_hr # NaN /\ hrv.sdnn # NaN /\ hrv.rmssd # NaN
    /\ hrv.pulse_amplitude # NaN

(***************************************************************************)
(* Claims about run_complete_analysis (SpecRun).                           *)
(***************************************************************************)
\* subject subj_id has all three condition results
Complete(subj_id) == \A cond \in CondSet : all_hrv_data[subj_id][cond] # None

\* C1: in the non-parametric group analysis, the three vectors compared for
\* a metric contain only subjects that have all three condition results, and
\* position i of the baseline, favorite and least-favorite vectors belongs
\* to the same subject.
C1_MatchedTriples ==
    pc = "stats_done" =>
        \A metric \in DOMAIN stats_results :
            LET r == stats_results[metric] IN
            \A i \in 1..Len(r.baseline) :
                \E subj_id \in DOMAIN all_hrv_data :
                    /\ Complete(subj_id)
                    /\ r.baseline[i] = all_hrv_data[subj_id]["baseline"][metric]
                    /\ r.favorite[i] = all_hrv_data[subj_id]["favorite_song"][metric]
                    /\ r.least_fav[i] =
                          all_hrv_data[subj_id]["least_favorite_song"][metric]

\* C2: every processed signal that run_complete_analysis stores under
\* (subject s, condition c) originates from the raw record of subject s and
\* condition c.
C2_KeyedByOrigin ==
    \A subj_id \in DOMAIN proc_subjects_data :
        \A cond \in DOMAIN proc_subjects_data[subj_id] :
            proc_subjects_data[subj_id][cond].Name = <<subj_id, cond>>

\* C3: no exception propagates out of the per-(subject, condition) analysis
\* loop: run_complete_analysis / analyze_all_subjects always runs to
\* completion.
C3_NoExceptionEscapes == raised = "none" /\ pc # "crashed"


\* C11: analyze_all_subjects returns, for every subject of its input, an
\* entry for each of the three conditions, which is the result of analyze_hrv
\* on that condition's signal (a result or null); a null entry does not keep
\* the later conditions and the later subjects from being analysed.
C11_EveryEntryReturned ==
    pc \notin {"process", "reorganize", "hrv"} =>
        /\ DOMAIN all_hrv_data = DOMAIN proc_subjects_data
        /\ \A subj_id \in DOMAIN all_hrv_data :
              /\ DOMAIN all_hrv_data[subj_id] = CondSet
              /\ \A cond \in CondSet :
                    all_hrv_data[subj_id][cond] =
                        analyze_hrv(proc_subjects_data[subj_id][cond].Signal,
                                    FS, <<subj_id, cond>>).result


(***************************************************************************)
(* classify_subject_responsiveness, statistics.py:213-299.                 *)
(*                                                                         *)
(* A float is Num(v) or NaN, as before.  The metric values read by the     *)
(* classifier carry an integer v; the percent changes it computes carry    *)
(* an exact rational v = <<num, den>>, den > 0, in lowest terms.  A true   *)
(* division by zero is the value DivByZero.                                *)
(***************************************************************************)
EFFECT_SIZE_MEDIUM == 10
HIGHLY_RESPONSIVE_THRESHOLD == 3
RESPONSIVE_THRESHOLD == 2

MetricSet == {METRICS_5[k] : k \in 1..Len(METRICS_5)}

METRIC_NAMES_5 ==
    [metric \in MetricSet |->
        CASE metric = "mean_hr" -> "Heart Rate"
          [] metric = "sdnn" -> "SDNN"
          [] metric = "rmssd" -> "RMSSD"
          [] metric = "lf_hf_ratio" -> "LF/HF Ratio"
          [] metric = "pulse_amplitude" -> "Pulse Amplitude"]

RECURSIVE GCD(_, _)
GCD(a, b) == IF b = 0 THEN a ELSE GCD(b, a % b)

\* the rational n / d, d # 0, in lowest terms with a positive denominator
Rat(n, d) ==
    LET g == GCD(Abs(n), Abs(d))
        sgn == IF d < 0 THEN -1 ELSE 1
    IN <<(sgn * n) \div g, Abs(d) \div g>>

RatAdd(r, q) == Rat(r[1] * q[2] + q[1] * r[2], r[2] * q[2])
RatAbs(r) == <<Abs(r[1]), r[2]>>
\* r >= k, for an integer k
RatGeq(r, k) == r[1] >= k * r[2]
\* r < q, for rationals with positive denominators
RatLt(r, q) == r[1] * q[2] < q[1] * r[2]

DivByZero == [zero_division |-> TRUE]
IsNum(x) == x # DivByZero /\ x # NaN

\* dict.get(key): the value under key, None when the key is absent
Get(d, key) == IF key \in DOMAIN d THEN d[key] ELSE None


\* (x - y) / y * 100 on floats
RelPct(x, y) ==
    IF y # NaN /\ y.v = 0 THEN DivByZero
    ELSE IF x = NaN \/ y = NaN THEN NaN
    ELSE Num(Rat((x.v - y.v) * 100, y.v))

\* mutant of pct_change: no test of the base value
pct_change_unguarded(x, base) == RelPct(x, base)

\* statistics.py:259-261: ((x - base) / base * 100) if base != 0 else 0
pct_change(x, base) ==
    IF base = NaN \/ base.v # 0 THEN RelPct(x, base) ELSE Num(<<0, 1>>)

\* abs(x) on floats
FAbs(x) == IF IsNum(x) THEN Num(RatAbs(x.v)) ELSE x

RECURSIVE RatSum(_)
RatSum(xs) == IF xs = <<>> THEN <<0, 1>> ELSE RatAdd(xs[1].v, RatSum(Tail(xs)))

\* np.mean(xs) for a non-empty list of floats
np_mean(xs) ==
    IF \E k \in 1..Len(xs) : xs[k] = DivByZero THEN DivByZero
    ELSE IF \E k \in 1..Len(xs) : xs[k] = NaN THEN NaN
    ELSE LET total == RatSum(xs) IN Num(Rat(total[1], total[2] * Len(xs)))

\* mutant of IsSignificant: an effect size of exactly 10 does not count
IsSignificant_strict(mean_change) ==
    IsNum(mean_change) /\ mean_change.v[1] > EFFECT_SIZE_MEDIUM * mean_change.v[2]

\* mutant of IsSignificant: a not-a-number effect size counts as significant
IsSignificant_nanCounts(mean_change) ==
    ~IsNum(mean_change) \/ RatGeq(mean_change.v, EFFECT_SIZE_MEDIUM)

\* statistics.py:266: mean_change >= EFFECT_SIZE_MEDIUM (False for NaN)
IsSignificant(mean_change) ==
    IsNum(mean_change) /\ RatGeq(mean_change.v, EFFECT_SIZE_MEDIUM)

\* mutant of classify_metric: the mean is taken over the two changes from
\* baseline only
classify_metric_twoChanges(b_val, f_val, l_val) ==
    LET fav_change == pct_change(f_val, b_val)
        least_change == pct_change(l_val, b_val)
        mean_change == np_mean(<<FAbs(fav_change), FAbs(least_change)>>)
    IN [baseline |-> b_val, favorite |-> f_val, least_fav |-> l_val,
        fav_change_pct |-> fav_change,
        least_change_pct |-> least_change,
        mean_change_pct |-> mean_change,
        is_significant |-> IsSignificant(mean_change)]

\* statistics.py:254-278: the body of the loop over METRICS_5
classify_metric(b_val, f_val, l_val) ==
    LET fav_change == pct_change(f_val, b_val)
        least_change == pct_change(l_val, b_val)
        fav_vs_least_change == pct_change(l_val, f_val)
        mean_change == np_mean(<<FAbs(fav_change), FAbs(least_change),
                                 FAbs(fav_vs_least_change)>>)
    IN [baseline |-> b_val, favorite |-> f_val, least_fav |-> l_val,
        fav_change_pct |-> fav_change,
        least_change_pct |-> least_change,
        mean_change_pct |-> mean_change,
        is_significant |-> IsSignificant(mean_change)]


\* statistics.py:283-288
Label(n_significant) ==
    IF n_significant >= HIGHLY_RESPONSIVE_THRESHOLD THEN "HIGHLY RESPONSIVE"
    ELSE IF n_significant >= RESPONSIVE_THRESHOLD THEN "RESPONSIVE"
    ELSE "NON_RESPONSIVE"

\* statistics.py:240-243: the test for incomplete data
Incomplete(hrv_results) ==
    \/ Get(hrv_results, "baseline") = None
    \/ Get(hrv_results, "favorite_song") = None
    \/ Get(hrv_results, "least_favorite_song") = None

\* statistics.py:245-297: the entry of one subject with complete data
classify_subject(hrv_results) ==
    LET baseline == hrv_results["baseline"]
        favorite == hrv_results["favorite_song"]
        least_fav == hrv_results["least_favorite_song"]
        metric_results ==
            [metric \in MetricSet |->
                classify_metric(baseline[metric], favorite[metric], least_fav[metric])]
        significant ==
            SelectSeq(METRICS_5, LAMBDA metric : metric_results[metric].is_significant)
        significant_metrics ==
            [k \in 1..Len(significant) |-> METRIC_NAMES_5[significant[k]]]
        n_significant == Len(significant_metrics)
    IN [classification |-> Label(n_significant),
        n_significant |-> n_significant,
        significant_metrics |-> significant_metrics,
        metric_results |-> metric_results]

\* mutant of classify_subject_responsiveness: a subject with incomplete data
\* is entered as NON_RESPONSIVE
classify_subject_responsiveness_labelIncomplete(all) ==
    [subj_id \in DOMAIN all |->
        IF Incomplete(all[subj_id])
        THEN [classification |-> "NON_RESPONSIVE",
              n_significant |-> 0,
              significant_metrics |-> <<>>,
              metric_results |-> <<>>]
        ELSE classify_subject(all[subj_id])]

\* classify_subject_responsiveness, statistics.py:236-299
classify_subject_responsiveness(all) ==
    [subj_id \in {s \in DOMAIN all : ~Incomplete(all[s])} |->
        classify_subject(all[subj_id])]

\* a true division by zero in the computation of some entry
ZeroDivision(classifications) ==
    \E subj_id \in DOMAIN classifications :
        \E metric \in DOMAIN classifications[subj_id].metric_results :
            classifications[subj_id].metric_results[metric].mean_change_pct = DivByZero

(***************************************************************************)
(* SpecClassify: classify_subject_responsiveness on cohorts of at most     *)
(* MaxClsSubjects subjects.  The values of a metric under the three        *)
(* conditions are one of ClsTriples: 70/77/63 (effect size 12.7),          *)
(* 100/115/115 (exactly 10), 100/110/99 (7), triples with a zero base, all *)
(* zero, and one with a NaN.  In a cohort, k of the 5 metrics of each      *)
(* subject take the triple t and the others the triple u, at positions     *)
(* that rotate with the subject.  A subject has all three results, or a    *)
(* null or absent one.                                                     *)
(***************************************************************************)
MaxClsSubjects == 2
ClsTriples ==
    {<<Num(70), Num(77), Num(63)>>,
     <<Num(100), Num(115), Num(115)>>,
     <<Num(100), Num(110), Num(99)>>,
     <<Num(0), Num(5), Num(0)>>,
     <<Num(5), Num(0), Num(5)>>,
     <<Num(0), Num(0), Num(0)>>,
     <<Num(2), NaN, Num(3)>>,
     <<NaN, Num(100), Num(115)>>,
     <<Num(0), Num(0), NaN>>}
ClsPresence == {"complete", "null_baseline", "absent_favorite_song", "null_least"}

ClsSubject(s, t, u, k, presence) ==
    LET triple(i) == IF (i + s - 1) % Len(METRICS_5) < k THEN t ELSE u
        result(cond) ==
            [none |-> FALSE,
             name |-> <<s, cond>>,
             mean_hr |-> triple(1)[CondIdx(cond)],
             sdnn |-> triple(2)[CondIdx(cond)],
             rmssd |-> triple(3)[CondIdx(cond)],
             lf_hf_ratio |-> triple(4)[CondIdx(cond)],
             pulse_amplitude |-> triple(5)[CondIdx(cond)]]
        null == IF presence = "null_baseline" THEN {"baseline"}
                ELSE IF presence = "null_least" THEN {"least_favorite_song"}
                ELSE {}
        absent == IF presence = "absent_favorite_song" THEN {"favorite_song"} ELSE {}
    IN [cond \in CondSet \ absent |-> IF cond \in null THEN None ELSE result(cond)]

InitClassify ==
    /\ pc = "classify_call"
    /\ \E n \in 1..MaxClsSubjects :
          \E t \in ClsTriples, u \in ClsTriples, k \in 0..Len(METRICS_5) :
              \E presence \in [1..n -> ClsPresence] :
                  all_hrv_data = [s \in 1..n |-> ClsSubject(s, t, u, k, presence[s])]
    /\ subjects_data = <<>>
    /\ processed_ppg_records = <<>>
    /\ proc_subjects_data = <<>>
    /\ condition_data = <<>>
    /\ stats_results = <<>>
    /\ raised = "none"
    /\ scipy = None
    /\ test_calls = <<>>
    /\ anova_results = <<>>
    /\ subject_classifications = <<>>
    /\ CleanIdle
    /\ HrvIdle

\* the call classify_subject_responsiveness(all_hrv_data), main.py:114-115
Classify ==
    /\ pc = "classify_call"
    /\ LET r == classify_subject_responsiveness(all_hrv_data) IN
       IF ZeroDivision(r)
       THEN /\ raised' = "ZeroDivisionError"
            /\ subject_classifications' = subject_classifications
            /\ pc' = "crashed"
       ELSE /\ raised' = raised
            /\ subject_classifications' = r
            /\ pc' = "classify_done"
    /\ UNCHANGED <<det_peaks, frameVars, subjects_data, processed_ppg_records, proc_subjects_data,
                   all_hrv_data, condition_data, stats_results, scipy, test_calls,
                   anova_results, cleanVars, hrvVars, metricVars>>

NextClassify == Classify
SpecClassify == InitClassify /\ [][NextClassify]_vars


(***************************************************************************)
(* Claims about classify_subject_responsiveness (SpecClassify).            *)
(***************************************************************************)
ClassifyDone == pc = "classify_done"

\* subject subj_id of the classifier's input has a non-null result under
\* each of the three conditions
AllPresent(subj_id) ==
    \A cond \in CondSet :
        /\ cond \in DOMAIN all_hrv_data[subj_id]
        /\ all_hrv_data[subj_id][cond] # None

\* C12: classify_subject_responsiveness returns an entry for a subject
\* exactly when all three condition results of the subject are non-null; a
\* subject with a null or absent condition result has no entry, hence no
\* NON_RESPONSIVE label.
C12_ClassifiedIffComplete ==
    ClassifyDone =>
        /\ DOMAIN subject_classifications \subseteq DOMAIN all_hrv_data
        /\ \A subj_id \in DOMAIN all_hrv_data :
              subj_id \in DOMAIN subject_classifications <=> AllPresent(subj_id)

\* two subjects, one classified (as NON_RESPONSIVE), the other without a
\* favorite_song entry and left out
C12_Witness ==
    /\ ClassifyDone
    /\ \E s1 \in DOMAIN all_hrv_data, s2 \in DOMAIN all_hrv_data :
          /\ s1 \in DOMAIN subject_classifications
          /\ subject_classifications[s1].classification = "NON_RESPONSIVE"
          /\ "favorite_song" \notin DOMAIN all_hrv_data[s2]
          /\ s2 \notin DOMAIN subject_classifications

\* |x - base| / |base| * 100 as an unreduced pair <<num, den>>; 0 when the
\* base is 0
AbsPct(x, base) ==
    IF base.v = 0 THEN <<0, 1>> ELSE <<Abs(x.v - base.v) * 100, Abs(base.v)>>

\* the percent change of x relative to base is not a number
PctIsNaN(x, base) == base = NaN \/ (base.v # 0 /\ x = NaN)

\* some of the three percent changes of (b, f, l) is not a number
AnyPctNaN(b, f, l) == PctIsNaN(f, b) \/ PctIsNaN(l, b) \/ PctIsNaN(l, f)

\* the metric values of subject subj_id, read from the classifier's input
InputTriple(subj_id, metric) ==
    <<all_hrv_data[subj_id]["baseline"][metric],
      all_hrv_data[subj_id]["favorite_song"][metric],
      all_hrv_data[subj_id]["least_favorite_song"][metric]>>

\* C13: for each of the 5 metrics the stored effect size mean_change_pct is
\* the mean of the three absolute percent changes favorite vs baseline
\* (relative to baseline), least-favorite vs baseline (relative to baseline)
\* and least-favorite vs favorite (relative to favorite), whatever the order
\* in which the three are taken; for 70/77/63 it is 140/11 = 12.7 (to one
\* decimal) and the metric is flagged significant.
C13_EffectSizeIsMeanOfThree ==
    ClassifyDone =>
        \A subj_id \in DOMAIN subject_classifications :
            \A metric \in MetricSet :
                LET r == subject_classifications[subj_id].metric_results[metric]
                    in == InputTriple(subj_id, metric)
                    b == in[1]
                    f == in[2]
                    l == in[3]
                    e == r.mean_change_pct
                    changes == <<FAbs(pct_change(f, b)), FAbs(pct_change(l, b)),
                                 FAbs(pct_change(l, f))>>
                IN /\ AnyPctNaN(b, f, l) => e = NaN
                   /\ ~AnyPctNaN(b, f, l) =>
                        LET p1 == AbsPct(f, b)
                            p2 == AbsPct(l, b)
                            p3 == AbsPct(l, f)
                        IN /\ IsNum(e)
                           /\ e.v[1] * 3 * p1[2] * p2[2] * p3[2] =
                                e.v[2] * (p3[1] * p1[2] * p2[2]
                                          + p2[1] * p1[2] * p3[2]
                                          + p1[1] * p2[2] * p3[2])
                   /\ \A order \in Permutations({1, 2, 3}) :
                        np_mean([k \in 1..3 |-> changes[order[k]]]) = e
                   /\ in = <<Num(70), Num(77), Num(63)>> =>
                        /\ e = Num(<<140, 11>>)
                        /\ 127 * e.v[2] <= 10 * e.v[1]
                        /\ 10 * e.v[1] < 128 * e.v[2]
                        /\ r.is_significant

\* a classified subject whose mean_hr is 70/77/63
C13_Witness ==
    /\ ClassifyDone
    /\ \E subj_id \in DOMAIN subject_classifications :
          /\ InputTriple(subj_id, "mean_hr") = <<Num(70), Num(77), Num(63)>>
          /\ subject_classifications[subj_id].metric_results["mean_hr"].is_significant


\* the effect size of (b, f, l) is a number and at least 10: three times 10
\* is at most the sum of the three absolute percent changes
EffectAtLeast10(b, f, l) ==
    /\ ~AnyPctNaN(b, f, l)
    /\ LET p1 == AbsPct(f, b)
           p2 == AbsPct(l, b)
           p3 == AbsPct(l, f)
       IN 3 * 10 * p1[2] * p2[2] * p3[2] <=
              p1[1] * p2[2] * p3[2] + p2[1] * p1[2] * p3[2] + p3[1] * p1[2] * p2[2]

\* C14: a metric is flagged significant exactly when its effect size is at
\* least 10, the value 10 included; a classified subject is in the highest
\* class when 3 or more of the 5 metrics are significant, RESPONSIVE when
\* exactly 2 are, NON_RESPONSIVE when 0 or 1 are; n_significant is the
\* length of significant_metrics, which lists the significant metrics, and
\* lies in 0..5.
C14_SignificanceAndLabel ==
    ClassifyDone =>
        \A subj_id \in DOMAIN subject_classifications :
            LET c == subject_classifications[subj_id]
                flagged == {metric \in MetricSet : c.metric_results[metric].is_significant}
                n == Cardinality(flagged)
            IN /\ \A metric \in MetricSet :
                    LET in == InputTriple(subj_id, metric) IN
                    metric \in flagged <=> EffectAtLeast10(in[1], in[2], in[3])
               /\ n >= 3 => c.classification = "HIGHLY RESPONSIVE"
               /\ n = 2 => c.classification = "RESPONSIVE"
               /\ n <= 1 => c.classification = "NON_RESPONSIVE"
               /\ c.n_significant = n
               /\ c.n_significant = Len(c.significant_metrics)
               /\ c.n_significant \in 0..5
               /\ {c.significant_metrics[k] : k \in 1..Len(c.significant_metrics)} =
                      {METRIC_NAMES_5[metric] : metric \in flagged}

\* a RESPONSIVE subject: exactly two significant metrics, whose effect size
\* is exactly 10
C14_Witness ==
    /\ ClassifyDone
    /\ \E subj_id \in DOMAIN subject_classifications :
          LET c == subject_classifications[subj_id] IN
          /\ c.classification = "RESPONSIVE"
          /\ c.n_significant = 2
          /\ \A metric \in MetricSet :
                c.metric_results[metric].is_significant =>
                    c.metric_results[metric].mean_change_pct = Num(<<10, 1>>)

\* C15: in the classifier each of the three percent changes is 0 when its
\* own base value (baseline for the first two, favorite for the third) is
\* exactly 0, and no division by zero occurs.
C15_ZeroBaseIsZeroChange ==
    /\ raised # "ZeroDivisionError"
    /\ pc # "crashed"
    /\ ClassifyDone =>
        \A subj_id \in DOMAIN subject_classifications :
            \A metric \in MetricSet :
                LET r == subject_classifications[subj_id].metric_results[metric]
                    zero == Num(<<0, 1>>)
                IN /\ r.fav_change_pct # DivByZero
                   /\ r.least_change_pct # DivByZero
                   /\ r.mean_change_pct # DivByZero
                   /\ r.baseline = Num(0) =>
                        r.fav_change_pct = zero /\ r.least_change_pct = zero
                   /\ r.favorite = Num(0) =>
                        r.mean_change_pct =
                            np_mean(<<FAbs(r.fav_change_pct), FAbs(r.least_change_pct),
                                      zero>>)

\* a classified subject with one metric whose baseline is 0 and favorite is
\* not, and one metric whose favorite is 0 and baseline is not
C15_Witness ==
    /\ ClassifyDone
    /\ \E subj_id \in DOMAIN subject_classifications :
          \E m1 \in MetricSet, m2 \in MetricSet :
              LET r1 == subject_classifications[subj_id].metric_results[m1]
                  r2 == subject_classifications[subj_id].metric_results[m2]
              IN /\ r1.baseline = Num(0) /\ r1.favorite = Num(5)
                 /\ r1.mean_change_pct = Num(<<100, 3>>)
                 /\ r2.favorite = Num(0) /\ r2.baseline = Num(5)
                 /\ r2.mean_change_pct = Num(<<100, 3>>)


(***************************************************************************)
(* perform_repeated_measures_anova, statistics.py:96-210.  Of a row of     *)
(* results_summary the model keeps the metric, the threshold, the number   *)
(* of subjects, the p-value and the flag; the means, standard deviations   *)
(* and percent changes of the row are numpy expressions that do not raise  *)
(* and are left out.  A p-value is a float Num(<<num, den>>) or NaN.       *)
(***************************************************************************)
ALPHA_SIGNIFICANCE == <<5, 100>>

\* mutant of thresholds: the same threshold for every metric
thresholds_allAlpha(metric) == ALPHA_SIGNIFICANCE

\* statistics.py:110-116
thresholds(metric) ==
    CASE metric = "mean_hr" -> ALPHA_SIGNIFICANCE
      [] metric = "sdnn" -> <<10, 100>>
      [] metric = "rmssd" -> <<10, 100>>
      [] metric = "lf_hf_ratio" -> ALPHA_SIGNIFICANCE
      [] metric = "pulse_amplitude" -> ALPHA_SIGNIFICANCE

\* statistics.py:140-142: all three condition results are there
HasAllThree(hrv_results) ==
    /\ Get(hrv_results, "baseline") # None
    /\ Get(hrv_results, "favorite_song") # None
    /\ Get(hrv_results, "least_favorite_song") # None

\* statistics.py:139-146: the values of metric under cond of the subjects
\* from subj_id on that have all three results, in the order of the dict
RECURSIVE CollectComplete(_, _, _, _)
CollectComplete(all, cond, metric, subj_id) ==
    IF subj_id > Len(all) THEN <<>>
    ELSE (IF HasAllThree(all[subj_id])
          THEN <<all[subj_id][cond][metric]>>
          ELSE <<>>) \o CollectComplete(all, cond, metric, subj_id + 1)

\* statistics.py:183: p_value < threshold (False for NaN)
PBelow(p_value, threshold) == p_value # NaN /\ RatLt(p_value.v, threshold)

\* statistics.py:125-208: the loop over METRICS_5 from METRICS_5[k] on.  acc
\* is what the loop has done so far: the rows appended, the tests called,
\* and whether an exception has left the loop.  The call of f_oneway
\* (statistics.py:176) has no handler around it.
RECURSIVE anova_loop(_, _, _, _)
anova_loop(all, sp, k, acc) ==
    IF k > Len(METRICS_5) THEN acc
    ELSE
    LET metric == METRICS_5[k]
        baseline_data == CollectComplete(all, "baseline", metric, 1)
        favorite_data == CollectComplete(all, "favorite_song", metric, 1)
        least_fav_data == CollectComplete(all, "least_favorite_song", metric, 1)
        n_subjects == Len(baseline_data)
        threshold == thresholds(metric)
        call == TestCall(sp, metric, "f_oneway", "-",
                         <<baseline_data, favorite_data, least_fav_data>>)
        p_value == sp.p
        row == [metric |-> METRIC_NAMES_5[metric],
                threshold |-> threshold,
                n_subjects |-> n_subjects,
                p_value |-> p_value,
                significant |-> PBelow(p_value, threshold)]
    IN IF n_subjects < 3 THEN anova_loop(all, sp, k + 1, acc)
       ELSE IF call.outcome = "raised"
       THEN [raised |-> TRUE,
             results |-> acc.results,
             calls |-> Append(acc.calls, call)]
       ELSE anova_loop(all, sp, k + 1,
                       [raised |-> FALSE,
                        results |-> Append(acc.results, row),
                        calls |-> Append(acc.calls, call)])

perform_repeated_measures_anova(all, sp) ==
    anova_loop(all, sp, 1, [raised |-> FALSE, results |-> <<>>, calls |-> <<>>])


(***************************************************************************)
(* SpecStats: the group statistics of run_complete_analysis (main.py:99-   *)
(* 110) over the HRV results of 1..MaxSubjects subjects, at most MaxFaults *)
(* of which are null.  The value of a metric tells the subject, the        *)
(* condition and the metric it belongs to.  Of the scipy.stats tests       *)
(* either all return the same p-value, one of PValues, or exactly one      *)
(* call raises.                                                            *)
(***************************************************************************)
StatResult(s, cond) ==
    LET value(i) == Num(100 * s + 10 * CondIdx(cond) + i) IN
    [none |-> FALSE,
     name |-> <<s, cond>>,
     mean_hr |-> value(1),
     sdnn |-> value(2),
     rmssd |-> value(3),
     lf_hf_ratio |-> value(4),
     pulse_amplitude |-> value(5)]

StatCohort(n, nulls) ==
    [s \in 1..n |->
        [cond \in CondSet |->
            IF <<s, cond>> \in nulls THEN None ELSE StatResult(s, cond)]]

TestCallIds ==
    {<<metric, test, "-">> :
        metric \in MetricSet, test \in {"friedmanchisquare", "f_oneway"}}
    \cup {<<metric, "wilcoxon", pair>> :
            metric \in MetricSet,
            pair \in {"Baseline vs Favorite", "Baseline vs Least Fav",
                      "Favorite vs Least Fav"}}

PValues == {Num(<<1, 100>>), Num(<<5, 100>>), Num(<<7, 100>>), Num(<<10, 100>>), NaN}

StatOracles ==
    {[fails |-> {}, p |-> p] : p \in PValues}
    \cup {[fails |-> {c}, p |-> Num(<<1, 100>>)] : c \in TestCallIds}

InitStats ==
    /\ pc = "group"
    /\ \E n \in 1..MaxSubjects :
          \E nulls \in SubsetsUpTo((1..n) \X CondSet, MaxFaults) :
              all_hrv_data = StatCohort(n, nulls)
    /\ scipy \in StatOracles
    /\ subjects_data = <<>>
    /\ processed_ppg_records = <<>>
    /\ proc_subjects_data = <<>>
    /\ condition_data = <<>>
    /\ stats_results = <<>>
    /\ raised = "none"
    /\ test_calls = <<>>
    /\ anova_results = <<>>
    /\ subject_classifications = <<>>
    /\ CleanIdle
    /\ HrvIdle

\* main.py:110, perform_repeated_measures_anova returns
PerformAnova ==
    /\ pc = "stats_done"
    /\ LET r == perform_repeated_measures_anova(all_hrv_data, scipy) IN
          /\ ~r.raised
          /\ anova_results' = r.results
          /\ test_calls' = test_calls \o r.calls
    /\ pc' = "anova_done"
    /\ UNCHANGED <<det_peaks, frameVars, subjects_data, processed_ppg_records, proc_subjects_data,
                   all_hrv_data, condition_data, stats_results, raised, scipy,
                   subject_classifications, cleanVars, hrvVars, metricVars>>

\* main.py:110, perform_repeated_measures_anova raises: the exception of
\* f_oneway leaves the loop, the function and run_complete_analysis
PerformAnovaRaises ==
    /\ pc = "stats_done"
    /\ LET r == perform_repeated_measures_anova(all_hrv_data, scipy) IN
          /\ r.raised
          /\ test_calls' = test_calls \o r.calls
    /\ raised' = "Exception"
    /\ pc' = "crashed"
    /\ UNCHANGED <<det_peaks, frameVars, subjects_data, processed_ppg_records, proc_subjects_data,
                   all_hrv_data, condition_data, stats_results, scipy,
                   anova_results, subject_classifications, cleanVars, hrvVars, metricVars>>

NextStats ==
    \/ PlotGroupStatistics
    \/ RunStatisticalTests
    \/ PerformAnova
    \/ PerformAnovaRaises
SpecStats == InitStats /\ [][NextStats]_vars


(***************************************************************************)
(* Claims about the group statistics (SpecStats).                          *)
(***************************************************************************)
AnovaDone == pc = "anova_done"

\* the subjects that have all three condition results, in subject order
CompleteSubjects ==
    SelectSeq([s \in 1..Len(all_hrv_data) |-> s], LAMBDA s : Complete(s))

\* the row of anova_results for metric, if any
AnovaRows(metric) ==
    {i \in 1..Len(anova_results) : anova_results[i].metric = METRIC_NAMES_5[metric]}

\* C16: in perform_repeated_measures_anova the flag of a metric's row is
\* true exactly when p_value < threshold, the threshold being 0.05 for
\* mean_hr, lf_hf_ratio and pulse_amplitude and 0.10 for sdnn and rmssd;
\* the three vectors handed to the ANOVA of a metric hold one value per
\* subject that has all three condition results, in subject order.
C16_AnovaFlagAndVectors ==
    AnovaDone =>
        /\ \A metric \in MetricSet :
              \A i \in AnovaRows(metric) :
                  LET row == anova_results[i] IN
                  /\ row.threshold = IF metric \in {"sdnn", "rmssd"}
                                     THEN <<10, 100>> ELSE <<5, 100>>
                  /\ row.significant <=>
                        /\ row.p_value # NaN
                        /\ row.p_value.v[1] * row.threshold[2] <
                              row.threshold[1] * row.p_value.v[2]
        /\ \A j \in 1..Len(test_calls) :
              LET c == test_calls[j] IN
              c.test = "f_oneway" =>
                  \A k \in 1..Len(CONDITIONS) :
                      c.args[k] =
                          [i \in 1..Len(CompleteSubjects) |->
                              all_hrv_data[CompleteSubjects[i]][CONDITIONS[k]][c.metric]]

\* p = 0.07 with one subject left out: the SDNN row is significant, the
\* Heart Rate row is not
C16_Witness ==
    /\ AnovaDone
    /\ scipy.p = Num(<<7, 100>>)
    /\ Len(CompleteSubjects) < Len(all_hrv_data)
    /\ \E i \in AnovaRows("sdnn") : anova_results[i].significant
    /\ \E i \in AnovaRows("mean_hr") : ~anova_results[i].significant

\* C17: for each metric, run_statistical_tests and
\* perform_repeated_measures_anova produce a result entry exactly when 3 or
\* more matched subjects (subjects with all three condition results) are
\* available, and raise nothing when fewer are.
C17_SkippedBelowThreeMatched ==
    /\ pc \in {"stats_done", "anova_done", "crashed"} =>
          \A metric \in MetricSet :
              metric \in DOMAIN stats_results <=> Len(CompleteSubjects) >= 3
    /\ AnovaDone =>
          \A metric \in MetricSet :
              AnovaRows(metric) # {} <=> Len(CompleteSubjects) >= 3
    /\ (pc \notin {"group", "stats"} /\ Len(CompleteSubjects) < 3) => raised = "none"

\* the calls of test made for metric, as <<metric, test, pair>>
CallsMade ==
    {<<test_calls[j].metric, test_calls[j].test, test_calls[j].pair>> :
        j \in 1..Len(test_calls)}

\* C18: a hypothesis test that raises (the Friedman test, a Wilcoxon test or
\* the ANOVA of a metric) is caught where it is called: no exception leaves
\* the analysis, only the result of that test is missing from the output,
\* and the other tests of the metric and the tests of the other metrics are
\* still called.
C18_TestFailureIsLocal ==
    /\ raised = "none"
    /\ pc # "crashed"
    /\ pc \in {"stats_done", "anova_done"} =>
          \A metric \in DOMAIN stats_results :
              /\ {c \in TestCallIds : c[1] = metric /\ c[2] # "f_oneway"} \subseteq CallsMade
              /\ stats_results[metric].friedman_p = None <=>
                    <<metric, "friedmanchisquare", "-">> \in scipy.fails
    /\ AnovaDone =>
          \A metric \in MetricSet :
              Len(CompleteSubjects) >= 3 =>
                  /\ <<metric, "f_oneway", "-">> \in CallsMade
                  /\ AnovaRows(metric) = {} <=>
                        <<metric, "f_oneway", "-">> \in scipy.fails


(***************************************************************************)
(* SpecMetrics: calculate_time_domain_hrv and                              *)
(* calculate_frequency_domain_hrv called on a clean IBI series of at most  *)
(* MaxBeats intervals: a constant series of value c, or one that           *)
(* alternates between c and c + d, or one that steps from c to c + d       *)
(* half-way (within the limits of clean_ibi: the change is at most 10%).   *)
(***************************************************************************)
MaxBeats == 11
BeatValues == {600, 800, 1000}
Jitters == {0, 10, 50, 60}

BeatSeries(n, c, d) == [k \in 1..n |-> c + d * (k % 2)]
\* c for the first half of the series, c + d from then on
StepSeries(n, c, d) == [k \in 1..n |-> IF 2 * k <= n THEN c ELSE c + d]

InitMetrics ==
    /\ pc = "time_call"
    /\ \E n \in 0..MaxBeats, c \in BeatValues, d \in Jitters :
          ibi_clean \in {BeatSeries(n, c, d), StepSeries(n, c, d)}
    /\ \E spectrum \in Spectra : signal = [spectrum |-> spectrum]
    /\ ibi_ms = <<>>
    /\ min_ibi = MIN_IBI
    /\ max_ibi = MAX_IBI
    /\ max_change = MAX_IBI_CHANGE
    /\ hrv = None
    /\ calls = <<>>
    /\ MetricIdle
    /\ RunIdle

\* the call calculate_time_domain_hrv(ibi_clean), as in hrv_analyzer.py:250
CalcTimeDomain ==
    /\ pc = "time_call"
    /\ td_result' = calculate_time_domain_hrv(ibi_clean)
    /\ pc' = "freq_call"
    /\ UNCHANGED <<det_peaks, frameVars, fd_result, cleanVars, hrvVars, runVars>>

\* the call calculate_frequency_domain_hrv(ibi_clean), as in
\* hrv_analyzer.py:255
CalcFreqDomain ==
    /\ pc = "freq_call"
    /\ fd_result' = calculate_frequency_domain_hrv(ibi_clean, signal)
    /\ pc' = "metrics_done"
    /\ UNCHANGED <<det_peaks, frameVars, td_result, cleanVars, hrvVars, runVars>>

NextMetrics == CalcTimeDomain \/ CalcFreqDomain
SpecMetrics == InitMetrics /\ [][NextMetrics]_vars

(***************************************************************************)
(* Claims about the metric functions (SpecMetrics).                        *)
(***************************************************************************)
\* C19: for a clean IBI series of 10 or more intervals the lf_hf_ratio of
\* calculate_frequency_domain_hrv is never negative, is exactly 0 when
\* hf_power is 0, and is lf_power / hf_power (here in whole thousandths)
\* otherwise.
C19_RatioZeroWithoutHf ==
    (pc = "metrics_done" /\ Len(ibi_clean) >= 10) =>
        /\ fd_result # None
        /\ fd_result.lf_hf_ratio >= 0
        /\ fd_result.hf_power = signal.spectrum.hf
        /\ fd_result.lf_power = signal.spectrum.lf
        /\ fd_result.hf_power = 0 => fd_result.lf_hf_ratio = 0
        /\ fd_result.hf_power # 0 =>
              /\ fd_result.lf_hf_ratio * fd_result.hf_power
                    <= 1000 * fd_result.lf_power
              /\ 1000 * fd_result.lf_power
                    < (fd_result.lf_hf_ratio + 1) * fd_result.hf_power

\* 10 or more intervals, no HF power, some LF power: the ratio is 0
C19_Witness ==
    /\ pc = "metrics_done"
    /\ Len(ibi_clean) >= 10
    /\ fd_result # None
    /\ fd_result.hf_power = 0
    /\ fd_result.lf_power > 0
    /\ fd_result.lf_hf_ratio = 0

IsConstant(ibi) == \A k \in 1..Len(ibi) : ibi[k] = ibi[1]

\* C20: for a constant clean IBI series of value c and 2 or more intervals
\* calculate_time_domain_hrv returns sdnn = 0, rmssd = 0, nn50 = 0 and
\* mean_hr = 60000 / c (here in whole thousandths of a bpm; 75 bpm for
\* c = 800 ms); for fewer than 2 intervals it returns the insufficient-data
\* value.
C20_ConstantSeries ==
    pc \in {"freq_call", "metrics_done"} =>
        /\ Len(ibi_clean) < 2 => td_result = None
        /\ (Len(ibi_clean) >= 2 /\ IsConstant(ibi_clean)) =>
              LET c == ibi_clean[1] IN
              /\ td_result # None
              /\ td_result.sdnn = 0
              /\ td_result.rmssd = 0
              /\ td_result.nn50 = 0
              /\ td_result.mean_hr * c <= 60000 * 1000
              /\ 60000 * 1000 < (td_result.mean_hr + 1) * c
              /\ c = 800 => td_result.mean_hr = 75 * 1000

\* a constant series of 800 ms, 2 or more intervals: 75 bpm, no variability
C20_Witness ==
    /\ pc = "metrics_done"
    /\ Len(ibi_clean) >= 2
    /\ IsConstant(ibi_clean)
    /\ ibi_clean[1] = 800
    /\ td_result # None
    /\ td_result.mean_hr = 75 * 1000
    /\ td_result.sdnn = 0


\* C21: for a clean IBI series of 2 or more intervals the rmssd and sdnn of
\* calculate_time_domain_hrv are not negative (and are the whole part of
\* the root of the mean squared successive difference and of the sample
\* variance), nn50 counts the successive differences strictly above 50 ms
\* in absolute value, and pnn50 = nn50 / (length - 1) * 100 (here its whole
\* part) lies in 0..100.
C21_TimeDomainRanges ==
    (pc \in {"freq_call", "metrics_done"} /\ Len(ibi_clean) >= 2) =>
        LET n == Len(ibi_clean)
            d == [k \in 1..(n - 1) |-> ibi_clean[k + 1] - ibi_clean[k]]
            sumsq == SumSeq([k \in 1..(n - 1) |-> d[k] * d[k]])
            m == td_result
        IN /\ m # None
           /\ m.rmssd >= 0
           /\ m.rmssd * m.rmssd * (n - 1) <= sumsq
           /\ sumsq < (m.rmssd + 1) * (m.rmssd + 1) * (n - 1)
           /\ m.sdnn >= 0
           /\ m.sdnn * m.sdnn * n * (n - 1) <= NSqDev(ibi_clean)
           /\ m.nn50 = Cardinality({k \in 1..(n - 1) : d[k] > 50 \/ d[k] < -50})
           /\ m.pnn50 * (n - 1) <= m.nn50 * 100
           /\ m.nn50 * 100 < (m.pnn50 + 1) * (n - 1)
           /\ 0 <= m.pnn50 /\ m.pnn50 <= 100

\* a series with one successive difference above 50 ms and others below:
\* pnn50 strictly between 0 and 100
C21_Witness ==
    /\ pc = "metrics_done"
    /\ Len(ibi_clean) >= 3
    /\ td_result # None
    /\ td_result.nn50 = 1
    /\ 0 < td_result.pnn50 /\ td_result.pnn50 < 100
    /\ td_result.rmssd > 0
    /\ td_result.sdnn > 0


(***************************************************************************)
(* SpecPeaks: detect_peaks on its own, followed by clean_ibi with the      *)
(* default limits as in analyze_hrv (hrv_analyzer.py:236-243).  A signal   *)
(* has up to MaxCands candidate maxima, 25 or 40 samples apart (closer     *)
(* than min_samples, or exactly min_samples apart), of three heights, and  *)
(* at most one of them is of a prominence below PEAK_PROMINENCE.           *)
(***************************************************************************)
MaxCands == 4
CandGaps == {25, 40}
CandHeights == {90, 120, 150}

CandSignal(peaks, amp, flat) ==
    [n |-> TARGET_SAMPLES,
     peaks |-> peaks,
     amp |-> amp,
     prominence |-> [k \in 1..Len(peaks) |-> IF k = flat THEN 20 ELSE 50],
     spectrum |-> [lf |-> 30, hf |-> 20]]

InitPeaks ==
    /\ pc = "detect_call"
    /\ \E n \in 0..MaxCands :
          \E g \in [1..(n - 1) -> CandGaps], a \in [1..n -> CandHeights], flat \in 0..n :
             signal = CandSignal(IF n = 0 THEN <<>> ELSE PeaksFrom(30, g), a, flat)
    /\ hrv = None
    /\ calls = <<>>
    /\ MetricIdle
    /\ CleanIdle
    /\ RunIdle

\* peaks, ibi_ms = detect_peaks(signal, fs), hrv_analyzer.py:236
DetectPeaks ==
    /\ pc = "detect_call"
    /\ LET det == detect_peaks(signal, FS) IN
          det_peaks' = det.peaks /\ ibi_ms' = det.ibi_ms
    /\ pc' = "clean_call"
    /\ UNCHANGED <<frameVars, min_ibi, max_ibi, max_change, ibi_clean, hrvVars,
                   metricVars, runVars>>

NextPeaks == DetectPeaks \/ CleanIbi
SpecPeaks == InitPeaks /\ [][NextPeaks]_vars

DetectDone == pc \in {"clean_call", "clean_done"}

StrictlyIncreasing(s) == \A k \in 1..(Len(s) - 1) : s[k] < s[k + 1]

\* C22: detect_peaks returns the peak indices in strictly increasing order
\* and an IBI series whose k-th element is (peak[k+1] - peak[k]) / fs x 1000
\* ms, of length (number of peaks - 1) when 2 or more peaks are found; with
\* 0 or 1 peaks the IBI series is empty, and no error is raised.
C22_PeaksAndIntervals ==
    DetectDone =>
        /\ StrictlyIncreasing(det_peaks)
        /\ Len(det_peaks) >= 2 =>
              /\ Len(ibi_ms) = Len(det_peaks) - 1
              /\ \A k \in 1..Len(ibi_ms) :
                    ibi_ms[k] * FS = (det_peaks[k + 1] - det_peaks[k]) * 1000
        /\ Len(det_peaks) <= 1 => ibi_ms = <<>>
        /\ raised = "none"

C22_Witness ==
    /\ pc = "clean_call"
    /\ Len(det_peaks) >= 3
    /\ Len(det_peaks) < Len(signal.peaks)
    /\ ibi_ms[1] # ibi_ms[2]


\* the candidate maxima of the signal, by position in signal.peaks
Cands == DOMAIN signal.peaks
Returned(k) == \E m \in DOMAIN det_peaks : det_peaks[m] = signal.peaks[k]
Close(i, j) == i # j /\ Abs(signal.peaks[i] - signal.peaks[j]) < min_samples(FS)

\* consecutive returned peaks are at least int(min_distance x fs) apart
MinDistanceKept ==
    \A k \in 1..(Len(det_peaks) - 1) : det_peaks[k + 1] - det_peaks[k] >= min_samples(FS)

\* with the defaults every raw IBI is >= 400 ms, so the test ibi < min_ibi
\* of clean_ibi is false of every interval detect_peaks hands over
LowerLimitNeverRejects ==
    \A k \in 1..Len(ibi_ms) : ibi_ms[k] >= 400 /\ ~(ibi_ms[k] < min_ibi)

\* C24 as stated: any two consecutive peaks returned by detect_peaks are at
\* least int(min_distance x fs) samples apart, and of two candidate maxima
\* closer than that the larger one is kept; consequently, with the defaults,
\* every raw IBI is >= 400 ms and the min_ibi bound of clean_ibi never
\* rejects an interval.  (Refuted by three candidates 25 samples apart of
\* heights 150, 120, 90: the second is dropped by the first, so of the
\* second and third the smaller one is kept; and by a larger candidate of
\* too small a prominence, which drops its neighbour and is then dropped.)
C24_LargerOfTwoKept ==
    DetectDone =>
        /\ MinDistanceKept
        /\ \A i, j \in Cands :
              (Close(i, j) /\ signal.amp[i] > signal.amp[j]) => Returned(i)
        /\ LowerLimitNeverRejects

\* C24 amended: any two consecutive peaks returned by detect_peaks are at
\* least int(min_distance x fs) samples apart; of two candidate maxima
\* closer than that the smaller one is never returned together with the
\* larger one, and is returned only when the larger one was itself dropped
\* by a candidate at least as high closer than that to it; with the
\* defaults every raw IBI is >= 400 ms and the min_ibi bound of clean_ibi
\* never rejects an interval.
C24_MinDistance ==
    DetectDone =>
        /\ MinDistanceKept
        /\ \A i, j \in Cands :
              (Close(i, j) /\ signal.amp[i] > signal.amp[j] /\ Returned(j)) =>
                  /\ ~Returned(i)
                  /\ \E h \in Cands :
                        /\ Close(h, i)
                        /\ signal.amp[h] >= signal.amp[i]
                        /\ ~Close(h, j)
        /\ LowerLimitNeverRejects

\* the smaller of two close candidates is returned, 400 ms after the
\* candidate that dropped the larger one
C24_Witness ==
    /\ pc = "clean_done"
    /\ \E i, j \in Cands :
          Close(i, j) /\ signal.amp[i] > signal.amp[j] /\ Returned(j)
    /\ \E k \in DOMAIN ibi_ms : ibi_ms[k] = 400
    /\ ibi_clean # <<>>


(***************************************************************************)
(* Claims about the labels of the classifier (SpecClassify).               *)
(***************************************************************************)
\* the keys of COLORS_CLASSIFICATION, constants.py:117-121
COLORS_CLASSIFICATION == {"HIGHLY_RESPONSIVE", "RESPONSIVE", "NON_RESPONSIVE"}

\* C23: the classification label of every classified subject is one of
\* exactly the three strings NON_RESPONSIVE, RESPONSIVE, HIGHLY_RESPONSIVE,
\* the keys of COLORS_CLASSIFICATION.  (Refuted by a subject of 3 or more
\* significant metrics, whose label is spelt with a space.)
C23_LabelIsAColorKey ==
    ClassifyDone =>
        \A subj_id \in DOMAIN subject_classifications :
            subject_classifications[subj_id].classification \in COLORS_CLASSIFICATION


(***************************************************************************)
(* SpecPipeline: run_complete_analysis from preprocessing to the           *)
(* classification (main.py:59-115): the steps of SpecRun followed by the   *)
(* ANOVA and the classifier, on the cohorts of SpecRun with fewer than     *)
(* MaxFaults irregular records.                                            *)
(***************************************************************************)
PipelineOracles ==
    RunOracles \cup {[fails |-> {<<METRICS_5[1], "f_oneway", "-">>}, p |-> Num(<<1, 100>>)]}

InitPipeline ==
    /\ pc = "process"
    /\ \E n \in 1..MaxSubjects :
          \E F \in SubsetsUpTo((1..n) \X CondSet, MaxFaults - 1) :
              \E faults \in [F -> FaultKinds] :
                  subjects_data = Cohort(n, faults)
    /\ processed_ppg_records = <<>>
    /\ proc_subjects_data = <<>>
    /\ all_hrv_data = <<>>
    /\ condition_data = <<>>
    /\ stats_results = <<>>
    /\ raised = "none"
    /\ scipy \in PipelineOracles
    /\ test_calls = <<>>
    /\ anova_results = <<>>
    /\ subject_classifications = <<>>
    /\ CleanIdle
    /\ HrvIdle

\* main.py:114-115, after the ANOVA has returned
ClassifySubjects ==
    /\ pc = "anova_done"
    /\ LET r == classify_subject_responsiveness(all_hrv_data) IN
       IF ZeroDivision(r)
       THEN /\ raised' = "ZeroDivisionError"
            /\ subject_classifications' = subject_classifications
            /\ pc' = "crashed"
       ELSE /\ raised' = raised
            /\ subject_classifications' = r
            /\ pc' = "classify_done"
    /\ UNCHANGED <<det_peaks, frameVars, subjects_data, processed_ppg_records, proc_subjects_data,
                   all_hrv_data, condition_data, stats_results, scipy, test_calls,
                   anova_results, cleanVars, hrvVars, metricVars>>

NextPipeline ==
    \/ ProcessAllSignals
    \/ Reorganize
    \/ AnalyzeAllSubjects
    \/ AnalyzeAllSubjectsRaises
    \/ PlotGroupStatistics
    \/ RunStatisticalTests
    \/ PerformAnova
    \/ PerformAnovaRaises
    \/ ClassifySubjects
SpecPipeline == InitPipeline /\ [][NextPipeline]_vars

\* the positions from which a group-level step (main.py:99-115) starts
GroupPcs == {"group", "stats", "stats_done", "anova_done"}

\* analyze_hrv has finished for every (subject, condition) pair handed to
\* analyze_all_subjects, and all_hrv_data holds what it returned
AnalysisFinished ==
    /\ DOMAIN all_hrv_data = DOMAIN proc_subjects_data
    /\ \A subj_id \in DOMAIN all_hrv_data :
          /\ DOMAIN all_hrv_data[subj_id] = CondSet
          /\ \A cond \in CondSet :
                /\ cond \in DOMAIN proc_subjects_data[subj_id]
                /\ all_hrv_data[subj_id][cond] =
                       analyze_hrv(proc_subjects_data[subj_id][cond].Signal, FS,
                                   <<subj_id, cond>>).result

\* a step taken from a group-level position finds the analysis finished and
\* leaves the cohort as it is
GroupStepReadsAll ==
    pc \in GroupPcs => (AnalysisFinished /\ all_hrv_data' = all_hrv_data)

\* C25: in run_complete_analysis every group-level step (the group
\* statistics, the ANOVA, the classification) starts only after analyze_hrv
\* has finished for every (subject, condition) pair, and the cohort it
\* reads is not changed while it runs.
C25_GroupAfterAnalysis == [][GroupStepReadsAll]_vars

\* the classification has returned for a cohort with classified subjects,
\* ANOVA rows and a pair whose analysis returned null
C25_Witness ==
    /\ pc = "classify_done"
    /\ anova_results # <<>>
    /\ subject_classifications # <<>>
    /\ \E subj_id \in DOMAIN all_hrv_data : ~Complete(subj_id)


(***************************************************************************)
(* SpecFrame: the stages fed by one IBI array, with the arrays as objects. *)
(* heap holds the arrays; a stage is given the identity of an array and    *)
(* returns the identity of an array (clean_ibi) or a new dict of scalars   *)
(* (the metric functions).                                                 *)
(***************************************************************************)
\* np.array(...): a newly allocated array
Alloc(h, value) == [heap |-> Append(h, value), ref |-> Len(h) + 1]

\* clean_ibi on the array ref, hrv_analyzer.py:70-87: `return ibi_ms` hands
\* back the argument itself; `return np.array(clean)` a new array
clean_ibi_ref(h, ref, lo, hi, mc) ==
    IF Len(h[ref]) < 2 THEN [heap |-> h, ref |-> ref]
    ELSE Alloc(h, clean_ibi(h[ref], lo, hi, mc))

InitFrame ==
    /\ pc = "frame_clean"
    /\ ibi_ms \in SeqsUpTo(IbiValues, MaxLen)
    /\ heap = <<ibi_ms>>
    /\ arg_ref = 1
    /\ ret_ref = 0
    /\ min_ibi = MIN_IBI
    /\ max_ibi = MAX_IBI
    /\ max_change = MAX_IBI_CHANGE
    /\ ibi_clean = <<>>
    /\ \E spectrum \in Spectra : signal = [spectrum |-> spectrum]
    /\ hrv = None
    /\ calls = <<>>
    /\ td_result = None
    /\ fd_result = None
    /\ PeaksIdle
    /\ RunIdle

\* ibi_clean = clean_ibi(ibi_ms), hrv_analyzer.py:243
FrameCleanIbi ==
    /\ pc = "frame_clean"
    /\ LET r == clean_ibi_ref(heap, arg_ref, min_ibi, max_ibi, max_change) IN
          /\ heap' = r.heap
          /\ ret_ref' = r.ref
          /\ ibi_clean' = r.heap[r.ref]
    /\ pc' = "frame_time"
    /\ UNCHANGED <<det_peaks, arg_ref, ibi_ms, min_ibi, max_ibi, max_change,
                   hrvVars, metricVars, runVars>>

\* calculate_time_domain_hrv(ibi_clean), hrv_analyzer.py:250
FrameTimeDomain ==
    /\ pc = "frame_time"
    /\ td_result' = calculate_time_domain_hrv(heap[ret_ref])
    /\ pc' = "frame_freq"
    /\ UNCHANGED <<det_peaks, frameVars, fd_result, cleanVars, hrvVars, runVars>>

\* calculate_frequency_domain_hrv(ibi_clean), hrv_analyzer.py:255
FrameFreqDomain ==
    /\ pc = "frame_freq"
    /\ fd_result' = calculate_frequency_domain_hrv(heap[ret_ref], signal)
    /\ pc' = "frame_done"
    /\ UNCHANGED <<det_peaks, frameVars, td_result, cleanVars, hrvVars, runVars>>

NextFrame == FrameCleanIbi \/ FrameTimeDomain \/ FrameFreqDomain
SpecFrame == InitFrame /\ [][NextFrame]_vars

\* a step leaves every array that exists as it is, the signal as it is, and
\* the array clean_ibi returns is none of the arrays that existed
StageKeepsAndAllocates ==
    /\ \A ref \in DOMAIN heap : heap'[ref] = heap[ref]
    /\ signal' = signal
    /\ ret_ref' # ret_ref => ret_ref' \notin DOMAIN heap

\* C26: no stage mutates its input or another stage's output: clean_ibi and
\* the metric functions leave the series and signal passed to them
\* unchanged, and each returns a new value rather than an alias of its
\* input, clean_ibi on fewer than 2 intervals included.  (Refuted by
\* clean_ibi on an input of 0 or 1 intervals, which returns its argument.)
C26_NoMutationNoAlias == [][StageKeepsAndAllocates]_vars


\* lf_hf_ratio is not-a-number in one of the three condition results of
\* the subject
RatioNaN(subj_id) ==
    \E cond \in CondSet : all_hrv_data[subj_id][cond].lf_hf_ratio = NaN

\* lf_hf_ratio does not count for the subject: it is not flagged, is not
\* listed, and at most the 4 other metrics are significant
RatioNotCounted(c) ==
    /\ ~c.metric_results["lf_hf_ratio"].is_significant
    /\ \A k \in 1..Len(c.significant_metrics) :
          c.significant_metrics[k] # METRIC_NAMES_5["lf_hf_ratio"]
    /\ c.n_significant <= 4

\* C27 as stated: when lf_hf_ratio is not-a-number in any of a subject's
\* three condition results, the classifier never flags lf_hf_ratio as
\* significant for the subject, the subject is classified on at most 4
\* metrics, and the stored mean_change_pct of lf_hf_ratio is not-a-number.
\* (Refuted by lf_hf_ratio 0 / 0 / NaN over baseline / favorite_song /
\* least_favorite_song: each of the three changes has a base of 0 and is 0,
\* so the stored mean_change_pct is 0.)
C27_NaNRatioStoredAsNaN ==
    ClassifyDone =>
        \A subj_id \in DOMAIN subject_classifications :
            RatioNaN(subj_id) =>
                LET c == subject_classifications[subj_id] IN
                /\ RatioNotCounted(c)
                /\ c.metric_results["lf_hf_ratio"].mean_change_pct = NaN

\* C27 amended: when lf_hf_ratio is not-a-number in any of a subject's
\* three condition results, the classifier never flags lf_hf_ratio as
\* significant for the subject and the subject is classified on at most 4
\* metrics; the stored mean_change_pct of lf_hf_ratio is not-a-number,
\* except when the lf_hf_ratio of baseline and of favorite_song are both
\* exactly 0, where it is 0.
C27_NaNRatioNeverSignificant ==
    ClassifyDone =>
        \A subj_id \in DOMAIN subject_classifications :
            RatioNaN(subj_id) =>
                LET c == subject_classifications[subj_id]
                    in == InputTriple(subj_id, "lf_hf_ratio")
                    e == c.metric_results["lf_hf_ratio"].mean_change_pct
                IN /\ RatioNotCounted(c)
                   /\ IF in[1] = Num(0) /\ in[2] = Num(0)
                      THEN e = Num(<<0, 1>>)
                      ELSE e = NaN

\* a classified subject whose lf_hf_ratio is not-a-number under
\* favorite_song and whose 4 other metrics are all significant
C27_Witness ==
    /\ ClassifyDone
    /\ \E subj_id \in DOMAIN subject_classifications :
          LET c == subject_classifications[subj_id] IN
          /\ all_hrv_data[subj_id]["favorite_song"].lf_hf_ratio = NaN
          /\ c.n_significant = 4
          /\ c.metric_results["lf_hf_ratio"].mean_change_pct = NaN


(***************************************************************************)
(* Claims about the results of analyze_hrv (SpecHrv), continued.           *)
(***************************************************************************)
\* mean of the amplitudes of the signal at the given peaks, in hundredths
MeanAmplitudeAt(peaks) ==
    SumSeq([k \in 1..Len(peaks) |-> SampleAt(signal, peaks[k])]) \div Len(peaks)

\* C28: every non-null result of analyze_hrv holds at least 10 peaks; its
\* n_beats is the length of its ibi_clean and lies between 5 and the number
\* of peaks minus 1; its lf_hf_ratio is not-a-number exactly when n_beats is
\* below 10; its pulse_amplitude is the mean amplitude at the peaks and
\* never the not-a-number fallback; and analyze_hrv never returns from the
\* null branch of the time-domain metrics.
C28_ResultInvariants ==
    HrvDone =>
        /\ calls # <<"detect_peaks", "clean_ibi", "calculate_time_domain_hrv">>
        /\ hrv # None =>
              /\ Len(hrv.peaks) >= 10
              /\ hrv.n_beats = Len(hrv.ibi_clean)
              /\ 5 <= hrv.n_beats
              /\ hrv.n_beats <= Len(hrv.peaks) - 1
              /\ hrv.lf_hf_ratio = NaN <=> hrv.n_beats < 10
              /\ hrv.pulse_amp_data # None
              /\ hrv.pulse_amplitude # NaN
              /\ hrv.pulse_amplitude = Num(MeanAmplitudeAt(hrv.peaks))

\* a result of 11 peaks and the fewest beats, 5
C28_Witness ==
    /\ HrvDone
    /\ hrv # None
    /\ Len(hrv.peaks) = 11
    /\ hrv.n_beats = 5
    /\ hrv.lf_hf_ratio = NaN


(***************************************************************************)
(* Claims about clean_ibi (SpecClean), continued.                          *)
(***************************************************************************)
\* C29: clean_ibi is idempotent: for every input series and fixed min_ibi,
\* max_ibi and max_change, clean_ibi applied to its own output returns that
\* output.
C29_Idempotent ==
    CleanDone => clean_ibi(ibi_clean, min_ibi, max_ibi, max_change) = ibi_clean

\* an output of 2 or more intervals from an input in which an interval
\* within the limits was rejected for its change
C29_Witness ==
    /\ CleanDone
    /\ Len(ibi_clean) >= 2
    /\ Len(ibi_clean) < Len(ibi_ms)
    /\ \E i \in 2..(Len(ibi_ms) - 1) : WithinLimits(ibi_ms[i]) /\ ~Retained(ibi_ms, i)

\* positions of the input whose interval lies within [min_ibi, max_ibi]
InBounds == {i \in 1..Len(ibi_ms) : WithinLimits(ibi_ms[i])}
FirstInBounds == CHOOSE i \in InBounds : \A j \in InBounds : i <= j

\* x differs from base by more than max_change, relative to base
FarFrom(x, base) == Abs(x - base) * max_change[2] > max_change[1] * base

\* C30: for an input of 2 or more intervals the first interval within
\* [min_ibi, max_ibi] is retained whatever precedes it, so the output is
\* empty exactly when no interval is within the limits; and if every later
\* interval differs from that first retained interval by more than
\* max_change, the output is that single interval, even when the later
\* intervals are within the limits and within max_change of one another.
C30_FirstInBoundsRetained ==
    (CleanDone /\ Len(ibi_ms) >= 2) =>
        /\ ibi_clean = <<>> <=> InBounds = {}
        /\ InBounds # {} =>
              /\ ibi_clean[1] = ibi_ms[FirstInBounds]
              /\ (\A j \in (FirstInBounds + 1)..Len(ibi_ms) :
                     FarFrom(ibi_ms[j], ibi_ms[FirstInBounds]))
                   => ibi_clean = <<ibi_ms[FirstInBounds]>>

\* the first interval within the limits follows one outside them; the two
\* after it are within the limits and within max_change of each other, but
\* far from it: the output is that single interval
C30_Witness ==
    /\ CleanDone
    /\ Len(ibi_ms) = 4
    /\ InBounds = {2, 3, 4}
    /\ FarFrom(ibi_ms[3], ibi_ms[2]) /\ FarFrom(ibi_ms[4], ibi_ms[2])
    /\ ~FarFrom(ibi_ms[4], ibi_ms[3])
    /\ ibi_clean = <<ibi_ms[2]>>

====
